---- MODULE Spec2Model ----
(***************************************************************************)
(* ICT FaceKit: the morphable face model.                                  *)
(*                                                                         *)
(*   Scripts/face_model_io.py   _DirectoryModelLoader, load_face_model     *)
(*   Scripts/ict_face_model.py  FaceModel (weights, buffer, deform_mesh)   *)
(*   Scripts/face_model.py      FaceModel over the static FaceXModel       *)
(*   Scripts/face_x_model.py    FaceXModel                                 *)
(*                                                                         *)
(* Vertex coordinates and weights are numpy float64 values.  They are      *)
(* modelled as binary floating-point numbers with a Prec-bit significand,  *)
(* restricted to integer values: every arithmetic result is rounded to     *)
(* the nearest representable value, ties to the even significand.          *)
(***************************************************************************)
EXTENDS Integers, Sequences, FiniteSets, TLC

(* ------------------------------ bounds -------------------------------- *)

\* bits of significand of the modelled floating-point format
Prec == 2

\* largest number of identity morph-target files in a model directory
MaxId == 1

\* largest length of a weight vector a client passes in
MaxInputLen == 2

\* vertex counts of the meshes in the model directory
VertexCounts == {1}

\* vertex positions the meshes of the model directory are built from
VertexPool == {<<0, 0, 0>>, <<1, 0, 0>>, <<6, 1, 0>>}

\* the values of the weights a client passes in or the sampler draws
WeightVals == {0, 1}

\* the scalars and weights the algebraic laws are quantified over
Scalars == {0, 1, 2, 3}

\* longest contiguous run identity000.. in the directories the loader is
\* given, which may also hold one identity file after the first gap
MaxRun == 3

(* --------------------------- python values ---------------------------- *)

\* Python None and a present value, both as sequences so that they compare
None == <<>>

Some(x) == <<x>>

Get(o) == o[1]

(* ------------------------ float64 arithmetic -------------------------- *)

RECURSIVE Pow2(_)
Pow2(n) == IF n = 0 THEN 1 ELSE 2 * Pow2(n - 1)

\* the spacing of the representable values around magnitude a
RECURSIVE UlpOf(_, _)
UlpOf(a, u) == IF a < Pow2(Prec) * u THEN u ELSE UlpOf(a, 2 * u)

\* round a magnitude to nearest, ties to even
RoundMag(a) ==
    LET u == UlpOf(a, 1)
        q == a \div u
        r == a % u
    IN  IF 2 * r < u THEN q * u
        ELSE IF 2 * r > u THEN (q + 1) * u
        ELSE IF q % 2 = 0 THEN q * u
        ELSE (q + 1) * u

\* the float64 value of the real number x
Fl(x) == IF x < 0 THEN 0 - RoundMag(0 - x) ELSE RoundMag(x)

Representable(x) == Fl(x) = x

FAdd(a, b) == Fl(a + b)

FSub(a, b) == Fl(a - b)

FMul(a, b) == Fl(a * b)

(* --------------------- numpy arrays of vertices ----------------------- *)

\* the last axis of every points array
Dim == 3

\* numpy broadcasting of two leading axes; -1 when they do not broadcast
BroadcastLen(m, n) ==
    IF m = n THEN m
    ELSE IF m = 1 THEN n
    ELSE IF n = 1 THEN m
    ELSE -1

\* row i of an array broadcast to more rows
Row(a, i) == IF Len(a) = 1 THEN a[1] ELSE a[i]

\* a[:] = b on one-dimensional arrays: b must broadcast to the shape of a
CanAssign(a, b) == Len(b) = Len(a) \/ Len(b) = 1

SliceAssign(a, b) == [i \in 1..Len(a) |-> Row(b, i)]

\* b[:k] and b[k:]
SliceTo(b, k) == SubSeq(b, 1, IF k < Len(b) THEN k ELSE Len(b))

SliceFrom(b, k) == SubSeq(b, k + 1, Len(b))

Zeros(k) == [i \in 1..k |-> 0]

VecSub(p, q) == [c \in 1..Dim |-> FSub(p[c], q[c])]

VecAdd(p, q) == [c \in 1..Dim |-> FAdd(p[c], q[c])]

VecScale(w, p) == [c \in 1..Dim |-> FMul(w, p[c])]

\* a - b on points arrays (defined when the shapes broadcast)
PointsSub(a, b) ==
    [i \in 1..BroadcastLen(Len(a), Len(b)) |-> VecSub(Row(a, i), Row(b, i))]

\* a + b on points arrays of the same shape
PointsAdd(a, b) == [i \in 1..Len(a) |-> VecAdd(a[i], b[i])]

\* w * a for a scalar w
PointsScale(w, a) == [i \in 1..Len(a) |-> VecScale(w, a[i])]

(* ------------------------- the model directory ------------------------ *)

\* the path every script passes to the loader
ModelPath == "../FaceXModel"

\* 'identity{:03d}'.format(identityNum)
IdentityNames ==
    <<"identity000", "identity001", "identity002", "identity003",
      "identity004", "identity005">>

IdentityName(n) == IdentityNames[n + 1]

IsIdentityName(name) == \E i \in 1..Len(IdentityNames) : IdentityNames[i] = name

\* the expression names a configuration may list
ExpressionNames == {"smile", "frown"}

\* the '.obj' files of a directory other than generic_neutral_mesh.obj
ObjNames == ExpressionNames \cup {IdentityNames[i] : i \in 1..Len(IdentityNames)}

\* the points of the meshes with n vertices
MeshesOf(n) == [1..n -> VertexPool]

Meshes == UNION {MeshesOf(n) : n \in VertexCounts}

\* the expression lists of vertex_indices.json
ExpressionLists == {<<"smile">>}

\* the identity files identity000 .. identity{k-1}, and nothing after them
IdentityRuns(n) ==
    UNION {[{IdentityNames[i] : i \in 1..k} -> MeshesOf(n)] : k \in 0..MaxId}

\* a directory: the configuration document, the neutral mesh, the other
\* '.obj' files (ex: expression name -> mesh, ids: identity name -> mesh)
\* and the names of the files that exist but cannot be read
Directory(exs, g, ex, ids) ==
    [ config  |-> Some([expressions |-> Some(exs)]),
      neutral |-> Some(g),
      obj     |-> [name \in ObjNames |->
                     IF name \in DOMAIN ids THEN Some(ids[name])
                     ELSE IF name \in DOMAIN ex THEN Some(ex[name])
                     ELSE None],
      unreadable |-> {} ]

\* the files of the expressions a configuration lists
ExpressionFiles(exs, n) == [{exs[i] : i \in 1..Len(exs)} -> MeshesOf(n)]

\* the well-formed directories: every listed expression has its file, the
\* identity files are a contiguous run, all meshes have one vertex count
Directories ==
    UNION {
      { Directory(exs, g, ex, ids) :
          g \in MeshesOf(n), ids \in IdentityRuns(n),
          ex \in ExpressionFiles(exs, n) } :
      exs \in ExpressionLists, n \in VertexCounts }

\* the meshes of the directories the loader is given: one and two vertices
LoaderNeutrals == {<<(<<0, 0, 0>>)>>, <<(<<1, 0, 0>>), (<<0, 0, 0>>)>>}

LoaderMeshes == {<<(<<1, 0, 0>>)>>, <<(<<0, 0, 0>>), (<<6, 1, 0>>)>>}

\* vertex_indices.json: absent, without the 'expressions' key, or listing
\* expressions in some order
LoaderConfigs ==
    {None, Some([expressions |-> None])}
    \cup {Some([expressions |-> Some(exs)]) :
            exs \in {<<"smile">>, <<"smile", "frown">>, <<"frown", "smile">>}}

\* the identity files present: identity000 .. identity{k-1}, and possibly
\* one more file after the missing index k
IdentityFileSets ==
    UNION {{ {IdentityNames[i] : i \in 1..k} } \cup
           { {IdentityNames[i] : i \in 1..k} \cup {IdentityNames[j]} :
               j \in (k + 2)..Len(IdentityNames) } :
           k \in 0..MaxRun}

\* any directory the loader may be pointed at: each of the configuration,
\* the neutral mesh and the expression files present or not, the identity
\* files with or without a gap, the vertex counts equal or not
LoaderDirectories ==
    { [ config  |-> config,
        neutral |-> g,
        obj     |-> [name \in ObjNames |->
                       IF name = "smile" THEN smile
                       ELSE IF name = "frown" THEN frown
                       ELSE IF name \in ids THEN Some(id_mesh)
                       ELSE None],
        unreadable |-> {} ] :
        config \in LoaderConfigs,
        g \in {None} \cup {Some(m) : m \in LoaderNeutrals},
        smile \in {None} \cup {Some(m) : m \in LoaderMeshes},
        frown \in {None} \cup {Some(m) : m \in LoaderMeshes},
        ids \in IdentityFileSets,
        id_mesh \in LoaderMeshes }

(* ----------------------- face_model_io.py loader ---------------------- *)

\* the outcome of a call: a value, or the exception it raised
Ok(v) == [ok |-> TRUE, val |-> v, err |-> "none"]

Raise(e) == [ok |-> FALSE, val |-> None, err |-> e]

\* om.read_polymesh on '<name>.obj'
ReadPolymesh(dir, name) ==
    IF name \in ObjNames /\ dir.obj[name] # None /\ name \notin dir.unreadable
    THEN Ok(Get(dir.obj[name]))
    ELSE Raise("RuntimeError")

ReadModelConfig(dir) ==
    IF dir.config = None THEN Raise("FileNotFoundError") ELSE Ok(Get(dir.config))

ReadGenericNeutralMesh(dir) ==
    IF dir.neutral = None THEN Raise("RuntimeError") ELSE Ok(Get(dir.neutral))

\* config['expressions']
ConfigExpressions(config) ==
    IF config.expressions = None THEN Raise("KeyError")
    ELSE Ok(Get(config.expressions))

\* a variant of the loop that skips an expression whose file cannot be read
RECURSIVE ReadExpressionsSkipping(_, _, _, _, _)
ReadExpressionsSkipping(dir, expression_names, i, ex_names, ex_meshes) ==
    IF i > Len(expression_names)
    THEN Ok([names |-> ex_names, meshes |-> ex_meshes])
    ELSE LET r == ReadPolymesh(dir, expression_names[i])
         IN  IF ~r.ok
             THEN ReadExpressionsSkipping(dir, expression_names, i + 1,
                                          ex_names, ex_meshes)
             ELSE ReadExpressionsSkipping(dir, expression_names, i + 1,
                                          Append(ex_names, expression_names[i]),
                                          Append(ex_meshes, r.val))

\* a variant of the loop that puts each expression in front of the lists
RECURSIVE ReadExpressionsReversed(_, _, _, _, _)
ReadExpressionsReversed(dir, expression_names, i, ex_names, ex_meshes) ==
    IF i > Len(expression_names)
    THEN Ok([names |-> ex_names, meshes |-> ex_meshes])
    ELSE LET r == ReadPolymesh(dir, expression_names[i])
         IN  IF ~r.ok THEN Raise(r.err)
             ELSE ReadExpressionsReversed(dir, expression_names, i + 1,
                                          <<expression_names[i]>> \o ex_names,
                                          <<r.val>> \o ex_meshes)

\* the loop of _read_expression_morph_targets from position i on
RECURSIVE ReadExpressionsFrom(_, _, _, _, _)
ReadExpressionsFrom(dir, expression_names, i, ex_names, ex_meshes) ==
    IF i > Len(expression_names)
    THEN Ok([names |-> ex_names, meshes |-> ex_meshes])
    ELSE LET r == ReadPolymesh(dir, expression_names[i])
         IN  IF ~r.ok THEN Raise(r.err)
             ELSE ReadExpressionsFrom(dir, expression_names, i + 1,
                                      Append(ex_names, expression_names[i]),
                                      Append(ex_meshes, r.val))

ReadExpressionMorphTargets(dir, expression_names) ==
    ReadExpressionsFrom(dir, expression_names, 1, <<>>, <<>>)

\* the while loop of _read_identity_morph_targets: any failed read ends it
RECURSIVE ReadIdentitiesFrom(_, _, _, _)
ReadIdentitiesFrom(dir, identityNum, id_names, id_meshes) ==
    IF identityNum >= Len(IdentityNames)
    THEN [names |-> id_names, meshes |-> id_meshes]
    ELSE LET r == ReadPolymesh(dir, IdentityName(identityNum))
         IN  IF ~r.ok THEN [names |-> id_names, meshes |-> id_meshes]
             ELSE ReadIdentitiesFrom(dir, identityNum + 1,
                                     Append(id_names, IdentityName(identityNum)),
                                     Append(id_meshes, r.val))

ReadIdentityMorphTargets(dir) == ReadIdentitiesFrom(dir, 0, <<>>, <<>>)

\* a variant of the iteration that goes on to the next index after a failed
\* read, as long as the naming scheme has indices left
ProbeIdentitySkipping(dir, s) ==
    LET r == IF s.identityNum < Len(IdentityNames)
             THEN ReadPolymesh(dir, IdentityName(s.identityNum))
             ELSE Raise("RuntimeError")
    IN  IF r.ok
        THEN [s EXCEPT !.identityNum = s.identityNum + 1,
                       !.id_names = Append(s.id_names, IdentityName(s.identityNum)),
                       !.id_meshes = Append(s.id_meshes, r.val)]
        ELSE IF s.identityNum < Len(IdentityNames)
             THEN [s EXCEPT !.identityNum = s.identityNum + 1]
             ELSE [s EXCEPT !.done = TRUE]

\* a variant of the iteration that breaks only when the file is missing
\* and goes on to the next index after a file it could not read
ProbeIdentityMissingOnly(dir, s) ==
    LET r == IF s.identityNum < Len(IdentityNames)
             THEN ReadPolymesh(dir, IdentityName(s.identityNum))
             ELSE Raise("RuntimeError")
    IN  IF r.ok
        THEN [s EXCEPT !.identityNum = s.identityNum + 1,
                       !.id_names = Append(s.id_names, IdentityName(s.identityNum)),
                       !.id_meshes = Append(s.id_meshes, r.val)]
        ELSE IF /\ s.identityNum < Len(IdentityNames)
                /\ IdentityName(s.identityNum) \in dir.unreadable
             THEN [s EXCEPT !.identityNum = s.identityNum + 1]
             ELSE [s EXCEPT !.done = TRUE]

\* the locals of _read_identity_morph_targets when its loop is entered
StartScan == [identityNum |-> 0, id_names |-> <<>>, id_meshes |-> <<>>, done |-> FALSE]

\* one iteration of the while loop: the read succeeds and the loop goes on
\* with the next index, or it fails and the loop breaks
ProbeIdentity(dir, s) ==
    LET r == IF s.identityNum < Len(IdentityNames)
             THEN ReadPolymesh(dir, IdentityName(s.identityNum))
             ELSE Raise("RuntimeError")
    IN  IF r.ok
        THEN [s EXCEPT !.identityNum = s.identityNum + 1,
                       !.id_names = Append(s.id_names, IdentityName(s.identityNum)),
                       !.id_meshes = Append(s.id_meshes, r.val)]
        ELSE [s EXCEPT !.done = TRUE]

\* shape_mode[:] = mesh.points() - generic_neutral_mesh.points() succeeds when
\* the difference broadcasts to the (N, 3) shape of the mode
DeltaFits(neutral, mesh) == Len(mesh) = Len(neutral) \/ Len(mesh) = 1

\* a variant with the operands of the subtraction exchanged
ShapeModeDeltaSwapped(neutral, mesh) ==
    LET d == PointsSub(neutral, mesh)
    IN  [i \in 1..Len(neutral) |-> Row(d, i)]

\* a variant that clamps every coordinate of the difference to [-1, 1]
ShapeModeDeltaClamped(neutral, mesh) ==
    LET d == PointsSub(mesh, neutral)
    IN  [i \in 1..Len(neutral) |->
            [c \in 1..Dim |-> IF Row(d, i)[c] > 1 THEN 1
                              ELSE IF Row(d, i)[c] < -1 THEN -1
                              ELSE Row(d, i)[c]]]

ShapeModeDelta(neutral, mesh) ==
    LET d == PointsSub(mesh, neutral)
    IN  [i \in 1..Len(neutral) |-> Row(d, i)]

ComputeShapeModeDeltas(generic_neutral_mesh, morph_target_meshes) ==
    IF \A k \in 1..Len(morph_target_meshes) :
          DeltaFits(generic_neutral_mesh, morph_target_meshes[k])
    THEN Ok([k \in 1..Len(morph_target_meshes) |->
               ShapeModeDelta(generic_neutral_mesh, morph_target_meshes[k])])
    ELSE Raise("ValueError")

(* ------------------- ict_face_model.py: FaceModel --------------------- *)

\* FaceModel.__init__: every attribute None, the model not loaded.
\* _model_initialized, _num_expression_shapes and _num_identity_shapes are
\* attributes only face_model_io.load_model creates (FALSE / None: absent).
\* _deformed_vertices is the points() view of _deformed_mesh: one buffer.
NewFaceModel ==
    [ _model_loaded |-> FALSE,
      _model_initialized |-> FALSE,
      _model_path |-> None,
      _model_config |-> None,
      _generic_neutral_mesh |-> None,
      _deformed_vertices |-> None,
      _expression_names |-> None,
      _identity_names |-> None,
      _num_expressions |-> None,
      _num_identities |-> None,
      _num_expression_shapes |-> None,
      _num_identity_shapes |-> None,
      _expression_weights |-> None,
      _identity_weights |-> None,
      _expression_shape_modes |-> None,
      _identity_shape_modes |-> None ]

\* a variant of the loader that builds the weight vectors before the
\* morph targets are counted
IoLoadModelEmptyWeights(path, dir) ==
    LET config == ReadModelConfig(dir)
        neutral == ReadGenericNeutralMesh(dir)
        exlist == ConfigExpressions(config.val)
        ex == ReadExpressionMorphTargets(dir, exlist.val)
        id == ReadIdentityMorphTargets(dir)
        ex_modes == ComputeShapeModeDeltas(neutral.val, ex.val.meshes)
        id_modes == ComputeShapeModeDeltas(neutral.val, id.meshes)
    IN  IF ~config.ok THEN Raise(config.err)
        ELSE IF ~neutral.ok THEN Raise(neutral.err)
        ELSE IF ~exlist.ok THEN Raise(exlist.err)
        ELSE IF ~ex.ok THEN Raise(ex.err)
        ELSE IF ~ex_modes.ok THEN Raise(ex_modes.err)
        ELSE IF ~id_modes.ok THEN Raise(id_modes.err)
        ELSE Ok([NewFaceModel EXCEPT
                  !._model_path = Some(path),
                  !._model_config = Some(config.val),
                  !._generic_neutral_mesh = Some(neutral.val),
                  !._deformed_vertices = Some(neutral.val),
                  !._expression_names = Some(ex.val.names),
                  !._identity_names = Some(id.names),
                  !._num_expression_shapes = Some(Len(ex.val.names)),
                  !._num_identity_shapes = Some(Len(id.names)),
                  !._expression_weights = Some(Zeros(0)),
                  !._identity_weights = Some(Zeros(0)),
                  !._expression_shape_modes = Some(ex_modes.val),
                  !._identity_shape_modes = Some(id_modes.val),
                  !._model_initialized = TRUE])

\* _DirectoryModelLoader.load_model: the model it returns, or the exception
IoLoadModel(path, dir) ==
    LET config == ReadModelConfig(dir)
        neutral == ReadGenericNeutralMesh(dir)
        exlist == ConfigExpressions(config.val)
        ex == ReadExpressionMorphTargets(dir, exlist.val)
        id == ReadIdentityMorphTargets(dir)
        ex_modes == ComputeShapeModeDeltas(neutral.val, ex.val.meshes)
        id_modes == ComputeShapeModeDeltas(neutral.val, id.meshes)
    IN  IF ~config.ok THEN Raise(config.err)
        ELSE IF ~neutral.ok THEN Raise(neutral.err)
        ELSE IF ~exlist.ok THEN Raise(exlist.err)
        ELSE IF ~ex.ok THEN Raise(ex.err)
        ELSE IF ~ex_modes.ok THEN Raise(ex_modes.err)
        ELSE IF ~id_modes.ok THEN Raise(id_modes.err)
        ELSE Ok([NewFaceModel EXCEPT
                  !._model_path = Some(path),
                  !._model_config = Some(config.val),
                  !._generic_neutral_mesh = Some(neutral.val),
                  !._deformed_vertices = Some(neutral.val),
                  !._expression_names = Some(ex.val.names),
                  !._identity_names = Some(id.names),
                  !._num_expression_shapes = Some(Len(ex.val.names)),
                  !._num_identity_shapes = Some(Len(id.names)),
                  !._expression_weights = Some(Zeros(Len(ex.val.names))),
                  !._identity_weights = Some(Zeros(Len(id.names))),
                  !._expression_shape_modes = Some(ex_modes.val),
                  !._identity_shape_modes = Some(id_modes.val),
                  !._model_initialized = TRUE])

\* the '.obj' files whose name starts with 'identity'
IdentityFiles(dir) == {name \in ObjNames : IsIdentityName(name) /\ dir.obj[name] # None}

\* the orders in which os.listdir may return a set of files
Listings(S) == {l \in [1..Cardinality(S) -> S] : \A i, j \in DOMAIN l : i # j => l[i] # l[j]}

\* FaceModel._read_expressions
ReadExpressions(dir, config) ==
    LET exlist == ConfigExpressions(config)
    IN  IF ~exlist.ok THEN Raise(exlist.err)
        ELSE ReadExpressionMorphTargets(dir, exlist.val)

\* FaceModel._read_identities, for the listing order it met
ReadIdentities(dir, listing) ==
    [names |-> listing, meshes |-> [i \in DOMAIN listing |-> Get(dir.obj[listing[i]])]]

\* the weight vector load_model stores: zeros, overwritten by the first k
\* entries of a vector set before the load
LoadedWeights(preset, k) ==
    IF preset = None THEN Ok(Zeros(k))
    ELSE IF CanAssign(Zeros(k), SliceTo(Get(preset), k))
         THEN Ok(SliceAssign(Zeros(k), SliceTo(Get(preset), k)))
         ELSE Raise("ValueError")

\* FaceModel.load_model(model_path): the instance it leaves and the
\* exception it raised, attribute by attribute in the order of the code
LoadModel(self, path, dir, listing) ==
    LET config == ReadModelConfig(dir)
        neutral == ReadGenericNeutralMesh(dir)
        ex == ReadExpressions(dir, config.val)
        id == ReadIdentities(dir, listing)
        ex_weights == LoadedWeights(self._expression_weights, Len(ex.val.names))
        id_weights == LoadedWeights(self._identity_weights, Len(id.names))
        ex_modes == ComputeShapeModeDeltas(neutral.val, ex.val.meshes)
        id_modes == ComputeShapeModeDeltas(neutral.val, id.meshes)
        s1 == [self EXCEPT !._model_path = Some(path)]
        s2 == [s1 EXCEPT !._model_config = Some(config.val)]
        s3 == [s2 EXCEPT !._generic_neutral_mesh = Some(neutral.val),
                         !._deformed_vertices = Some(neutral.val)]
        s4 == [s3 EXCEPT !._expression_names = Some(ex.val.names),
                         !._identity_names = Some(id.names),
                         !._num_expressions = Some(Len(ex.val.names)),
                         !._num_identities = Some(Len(id.names))]
        s5 == [s4 EXCEPT !._expression_weights = Some(ex_weights.val)]
        s6 == [s5 EXCEPT !._identity_weights = Some(id_weights.val)]
        s7 == [s6 EXCEPT !._expression_shape_modes = Some(ex_modes.val)]
        s8 == [s7 EXCEPT !._identity_shape_modes = Some(id_modes.val),
                         !._model_loaded = TRUE]
    IN  IF ~config.ok THEN [self |-> s1, err |-> config.err]
        ELSE IF ~neutral.ok THEN [self |-> s2, err |-> neutral.err]
        ELSE IF ~ex.ok THEN [self |-> s3, err |-> ex.err]
        ELSE IF ~ex_weights.ok THEN [self |-> s4, err |-> ex_weights.err]
        ELSE IF ~id_weights.ok THEN [self |-> s5, err |-> id_weights.err]
        ELSE IF ~ex_modes.ok THEN [self |-> s6, err |-> ex_modes.err]
        ELSE IF ~id_modes.ok THEN [self |-> s7, err |-> id_modes.err]
        ELSE [self |-> s8, err |-> "none"]

\* a variant of set_identity that stores the tail slice, as set_expression does
SetIdentityTail(self, identity_weights) ==
    IF self._model_loaded
    THEN LET num_ids == Get(self._num_identities)
             stored == Get(self._identity_weights)
             given == SliceFrom(identity_weights, num_ids)
         IN  IF CanAssign(stored, given)
             THEN [self |-> [self EXCEPT !._identity_weights =
                                Some(SliceAssign(stored, given))],
                   err |-> "none"]
             ELSE [self |-> self, err |-> "ValueError"]
    ELSE [self |-> [self EXCEPT !._identity_weights = Some(identity_weights)],
          err |-> "none"]

\* a variant of set_identity that also resets the deformed buffer
SetIdentityAndReset(self, identity_weights) ==
    IF self._model_loaded
    THEN LET num_ids == Get(self._num_identities)
             stored == Get(self._identity_weights)
             given == SliceTo(identity_weights, num_ids)
         IN  IF CanAssign(stored, given)
             THEN [self |-> [self EXCEPT !._identity_weights =
                                Some(SliceAssign(stored, given)),
                              !._deformed_vertices = self._generic_neutral_mesh],
                   err |-> "none"]
             ELSE [self |-> self, err |-> "ValueError"]
    ELSE [self |-> [self EXCEPT !._identity_weights = Some(identity_weights)],
          err |-> "none"]

\* FaceModel.set_identity
SetIdentity(self, identity_weights) ==
    IF self._model_loaded
    THEN LET num_ids == Get(self._num_identities)
             stored == Get(self._identity_weights)
             given == SliceTo(identity_weights, num_ids)
         IN  IF CanAssign(stored, given)
             THEN [self |-> [self EXCEPT !._identity_weights =
                                Some(SliceAssign(stored, given))],
                   err |-> "none"]
             ELSE [self |-> self, err |-> "ValueError"]
    ELSE [self |-> [self EXCEPT !._identity_weights = Some(identity_weights)],
          err |-> "none"]

\* FaceModel.set_expression
SetExpression(self, expression_weights) ==
    IF self._model_loaded
    THEN LET num_exs == Get(self._num_expressions)
             stored == Get(self._expression_weights)
             given == SliceFrom(expression_weights, num_exs)
         IN  IF CanAssign(stored, given)
             THEN [self |-> [self EXCEPT !._expression_weights =
                                Some(SliceAssign(stored, given))],
                   err |-> "none"]
             ELSE [self |-> self, err |-> "ValueError"]
    ELSE [self |-> [self EXCEPT !._expression_weights = Some(expression_weights)],
          err |-> "none"]

\* a variant of randomize_identity without the test of _model_loaded
RandomizeIdentityUnchecked(self, sample) ==
    [self |-> [self EXCEPT !._identity_weights = Some(sample)], err |-> "none"]

\* a variant of randomize_identity that adds the sample to the stored weights
RandomizeIdentityBlend(self, sample) ==
    IF ~self._model_loaded
    THEN [self |-> self, err |-> "NotLoaded"]
    ELSE [self |-> [self EXCEPT !._identity_weights =
                      Some([i \in 1..Len(sample) |->
                              FAdd(Get(self._identity_weights)[i], sample[i])])],
          err |-> "none"]

\* FaceModel.randomize_identity, for the sample np.random.normal drew
RandomizeIdentity(self, sample) ==
    IF ~self._model_loaded
    THEN [self |-> self, err |-> "NotLoaded"]
    ELSE [self |-> [self EXCEPT !._identity_weights = Some(sample)],
          err |-> "none"]

\* FaceModel.reset_mesh
ResetMesh(self) ==
    IF ~self._model_loaded
    THEN [self |-> self, err |-> "NotLoaded"]
    ELSE [self |-> [self EXCEPT !._deformed_vertices = self._generic_neutral_mesh],
          err |-> "none"]

\* a variant of the loop that adds weight * weight * shape_mode
RECURSIVE DeformMeshHelperSquared(_, _, _, _)
DeformMeshHelperSquared(vertices, weights, shape_modes, i) ==
    IF i > Len(weights) \/ i > Len(shape_modes) THEN vertices
    ELSE DeformMeshHelperSquared(
             PointsAdd(vertices,
                       PointsScale(FMul(weights[i], weights[i]), shape_modes[i])),
             weights, shape_modes, i + 1)

\* a variant of the loop that adds a shape mode only when its weight is 1
RECURSIVE DeformMeshHelperUnitOnly(_, _, _, _)
DeformMeshHelperUnitOnly(vertices, weights, shape_modes, i) ==
    IF i > Len(weights) \/ i > Len(shape_modes) THEN vertices
    ELSE DeformMeshHelperUnitOnly(
             IF weights[i] = 1 THEN PointsAdd(vertices, shape_modes[i]) ELSE vertices,
             weights, shape_modes, i + 1)

\* FaceModel._deform_mesh_helper: the loop over zip(weights, shape_modes)
\* from position i on, adding weight * shape_mode to the buffer
RECURSIVE DeformMeshHelper(_, _, _, _)
DeformMeshHelper(vertices, weights, shape_modes, i) ==
    IF i > Len(weights) \/ i > Len(shape_modes) THEN vertices
    ELSE DeformMeshHelper(PointsAdd(vertices, PointsScale(weights[i], shape_modes[i])),
                          weights, shape_modes, i + 1)

\* a variant that accumulates the expression modes before the identity modes
DeformedVerticesExpressionsFirst(neutral, id_weights, id_modes, ex_weights, ex_modes) ==
    DeformMeshHelper(DeformMeshHelper(neutral, ex_weights, ex_modes, 1),
                     id_weights, id_modes, 1)

\* the buffer deform_mesh leaves: reset, identity modes, expression modes
DeformedVertices(neutral, id_weights, id_modes, ex_weights, ex_modes) ==
    DeformMeshHelper(DeformMeshHelper(neutral, id_weights, id_modes, 1),
                     ex_weights, ex_modes, 1)

\* a variant of deform_mesh without the reset: it accumulates onto the buffer
DeformMeshNoReset(self) ==
    IF ~self._model_loaded
    THEN [self |-> self, err |-> "NotLoaded"]
    ELSE [self |-> [self EXCEPT !._deformed_vertices =
                      Some(DeformedVertices(Get(self._deformed_vertices),
                                            Get(self._identity_weights),
                                            Get(self._identity_shape_modes),
                                            Get(self._expression_weights),
                                            Get(self._expression_shape_modes)))],
          err |-> "none"]

\* a variant of deform_mesh whose buffer is the neutral mesh's own array
DeformMeshAliased(self) ==
    IF ~self._model_loaded
    THEN [self |-> self, err |-> "NotLoaded"]
    ELSE LET deformed == DeformedVertices(Get(self._generic_neutral_mesh),
                                          Get(self._identity_weights),
                                          Get(self._identity_shape_modes),
                                          Get(self._expression_weights),
                                          Get(self._expression_shape_modes))
         IN  [self |-> [self EXCEPT !._deformed_vertices = Some(deformed),
                                    !._generic_neutral_mesh = Some(deformed)],
              err |-> "none"]

\* a variant of deform_mesh that resets the buffer only when an identity
\* weight is set
DeformMeshLazyReset(self) ==
    IF ~self._model_loaded
    THEN [self |-> self, err |-> "NotLoaded"]
    ELSE [self |-> [self EXCEPT !._deformed_vertices =
                      Some(DeformedVertices(
                             IF \A i \in DOMAIN Get(self._identity_weights) :
                                   Get(self._identity_weights)[i] = 0
                             THEN Get(self._deformed_vertices)
                             ELSE Get(self._generic_neutral_mesh),
                             Get(self._identity_weights),
                             Get(self._identity_shape_modes),
                             Get(self._expression_weights),
                             Get(self._expression_shape_modes)))],
          err |-> "none"]

\* FaceModel.deform_mesh
DeformMesh(self) ==
    IF ~self._model_loaded
    THEN [self |-> self, err |-> "NotLoaded"]
    ELSE [self |-> [self EXCEPT !._deformed_vertices =
                      Some(DeformedVertices(Get(self._generic_neutral_mesh),
                                            Get(self._identity_weights),
                                            Get(self._identity_shape_modes),
                                            Get(self._expression_weights),
                                            Get(self._expression_shape_modes)))],
          err |-> "none"]

\* the place deform_mesh has reached between two statements: the helper
\* that is running and the index of the pair its loop adds next
Position(weights, i) == [weights |-> weights, i |-> i]

\* the next pair zip(weights, shape_modes) yields from index i of a helper
\* on; after the identity helper comes the expression helper; None when
\* both loops are exhausted
NextPair(self, weights, i) ==
    IF /\ weights = "identity"
       /\ i <= Len(Get(self._identity_weights))
       /\ i <= Len(Get(self._identity_shape_modes))
    THEN Some(Position("identity", i))
    ELSE LET j == IF weights = "identity" THEN 1 ELSE i
         IN  IF /\ j <= Len(Get(self._expression_weights))
                /\ j <= Len(Get(self._expression_shape_modes))
             THEN Some(Position("expression", j))
             ELSE None

\* a variant of the entry of deform_mesh that does not reset the buffer
DeformMeshEnterNoReset(self) ==
    IF ~self._model_loaded
    THEN [self |-> self, at |-> None, err |-> "NotLoaded"]
    ELSE [self |-> self, at |-> NextPair(self, "identity", 1), err |-> "none"]

\* FaceModel.deform_mesh up to its first pair: the check, then reset_mesh
DeformMeshEnter(self) ==
    IF ~self._model_loaded
    THEN [self |-> self, at |-> None, err |-> "NotLoaded"]
    ELSE [self |-> ResetMesh(self).self,
          at |-> NextPair(self, "identity", 1), err |-> "none"]

\* one iteration of the loop of _deform_mesh_helper:
\* self._deformed_vertices += weight * shape_mode
DeformMeshStep(self, at) ==
    LET weights == IF at.weights = "identity"
                   THEN Get(self._identity_weights)
                   ELSE Get(self._expression_weights)
        shape_modes == IF at.weights = "identity"
                       THEN Get(self._identity_shape_modes)
                       ELSE Get(self._expression_shape_modes)
    IN  [ self |-> [self EXCEPT !._deformed_vertices =
                      Some(PointsAdd(Get(self._deformed_vertices),
                                     PointsScale(weights[at.i],
                                                 shape_modes[at.i])))],
          at |-> NextPair(self, at.weights, at.i + 1) ]

\* FaceModel.get_deformed_mesh
GetDeformedMesh(self) ==
    IF ~self._model_loaded
    THEN [self |-> self, err |-> "NotLoaded"]
    ELSE [self |-> self, err |-> "none"]

(* ------------- face_x_model.py and face_model.py (FaceXModel) ---------- *)

\* the '.obj' files other than generic_neutral_mesh.obj
ObjFiles(dir) == {name \in ObjNames : dir.obj[name] # None}

\* the subsequence of a listing whose names satisfy (or not) IsIdentityName
RECURSIVE SelectNames(_, _, _)
SelectNames(listing, identities, i) ==
    IF i > Len(listing) THEN <<>>
    ELSE IF IsIdentityName(listing[i]) = identities
         THEN <<listing[i]>> \o SelectNames(listing, identities, i + 1)
         ELSE SelectNames(listing, identities, i + 1)

MeshesNamed(dir, names) == [i \in DOMAIN names |-> Get(dir.obj[names[i]])]

\* FaceXModel.__init__: vertex_indices.json, the neutral mesh, every other
\* '.obj' file in listing order (identity* files are identities, the rest
\* are expressions) and the shape modes
NewFaceXModel(dir, listing) ==
    LET vertex_indices == ReadModelConfig(dir)
        neutral == ReadGenericNeutralMesh(dir)
        id_names == SelectNames(listing, TRUE, 1)
        ex_names == SelectNames(listing, FALSE, 1)
        id_modes == ComputeShapeModeDeltas(neutral.val, MeshesNamed(dir, id_names))
        ex_modes == ComputeShapeModeDeltas(neutral.val, MeshesNamed(dir, ex_names))
    IN  IF ~vertex_indices.ok THEN Raise(vertex_indices.err)
        ELSE IF ~neutral.ok THEN Raise(neutral.err)
        ELSE IF ~id_modes.ok THEN Raise(id_modes.err)
        ELSE IF ~ex_modes.ok THEN Raise(ex_modes.err)
        ELSE Ok([ vertex_indices |-> vertex_indices.val,
                  generic_neutral_mesh |-> neutral.val,
                  num_vertices |-> Len(neutral.val),
                  identity_names |-> id_names,
                  expression_names |-> ex_names,
                  identity_shape_modes |-> id_modes.val,
                  expression_shape_modes |-> ex_modes.val ])

\* face_model.FaceModel.__init__ with no arguments, over the static model
NewLegacyFaceModel(fxm) ==
    [ generic_neutral_points |-> fxm.generic_neutral_mesh,
      num_vertices |-> Len(fxm.generic_neutral_mesh),
      deformed_points |-> fxm.generic_neutral_mesh,
      identity_shape_modes |-> fxm.identity_shape_modes,
      num_identities |-> Len(fxm.identity_shape_modes),
      identity_weights |-> Zeros(Len(fxm.identity_shape_modes)),
      expression_shape_modes |-> fxm.expression_shape_modes,
      num_expressions |-> Len(fxm.expression_shape_modes),
      expression_weights |-> Zeros(Len(fxm.expression_shape_modes)),
      write_path |-> "./",
      filename |-> None ]

\* face_model.FaceModel.reset_mesh
LegacyResetMesh(self) ==
    [self EXCEPT !.deformed_points = self.generic_neutral_points]

\* face_model.FaceModel.deform_mesh
LegacyDeformMesh(self) ==
    [self EXCEPT !.deformed_points =
        DeformedVertices(self.generic_neutral_points,
                         self.identity_weights, self.identity_shape_modes,
                         self.expression_weights, self.expression_shape_modes)]

\* face_model.FaceModel.sample_random_identity, for the sample drawn
SampleRandomIdentity(self, sample) ==
    [self EXCEPT !.identity_weights = sample]

(* ------------- face_model.py: the objects and their references -------- *)

\* a numpy array: its element type, whether it is zero-dimensional, and its
\* elements (the characters of a string element are its code points)
NdArray(dtype, zero_d, data) == [dtype |-> dtype, zero_d |-> zero_d, data |-> data]

\* the float64 arrays of the meshes, the shape modes and the weights
Float64(data) == NdArray("float64", FALSE, data)

\* new arrays live at new addresses
Alloc(h, arrays) == h \o arrays

\* the references a FaceXModel holds, in attribute order
ModelRefs(fxm) ==
    <<fxm.generic_neutral_mesh, fxm.identity_shape_modes,
      fxm.expression_shape_modes>>

\* the references a face_model.FaceModel instance holds, in attribute order
FaceRefs(self) ==
    <<self.generic_neutral_points, self.deformed_points,
      self.identity_shape_modes, self.identity_weights,
      self.expression_shape_modes, self.expression_weights>>

RECURSIVE Flatten(_)
Flatten(seqs) == IF seqs = <<>> THEN <<>> ELSE Head(seqs) \o Flatten(Tail(seqs))

\* every reference held by the static variable and the instances
Refs(static, instances) ==
    (IF static = None THEN <<>> ELSE ModelRefs(Get(static)))
      \o Flatten([i \in DOMAIN instances |-> FaceRefs(instances[i])])

\* the distinct addresses of refs, in the order they first occur
RECURSIVE Reachable(_, _)
Reachable(refs, seen) ==
    IF refs = <<>> THEN seen
    ELSE Reachable(Tail(refs),
                   IF \E k \in DOMAIN seen : seen[k] = Head(refs)
                   THEN seen ELSE Append(seen, Head(refs)))

\* where the array at addr lies once the unreachable arrays are reclaimed
Moved(order, addr) == CHOOSE k \in DOMAIN order : order[k] = addr

MovedModel(order, fxm) ==
    [fxm EXCEPT !.generic_neutral_mesh = Moved(order, @),
                !.identity_shape_modes = Moved(order, @),
                !.expression_shape_modes = Moved(order, @)]

MovedFace(order, self) ==
    [self EXCEPT !.generic_neutral_points = Moved(order, @),
                 !.deformed_points = Moved(order, @),
                 !.identity_shape_modes = Moved(order, @),
                 !.identity_weights = Moved(order, @),
                 !.expression_shape_modes = Moved(order, @),
                 !.expression_weights = Moved(order, @)]

\* the reachable arrays, kept in the given order, and the references to them
Kept(h, static, instances, order) ==
    [ heap |-> [k \in DOMAIN order |-> h[order[k]]],
      static |-> IF static = None THEN None
                 ELSE Some(MovedModel(order, Get(static))),
      instances |-> [i \in DOMAIN instances |->
                       MovedFace(order, instances[i])] ]

\* Python reclaims the arrays nothing references; addresses are not
\* observable, so the reachable arrays are kept in reference order
Collect(h, static, instances) ==
    Kept(h, static, instances, Reachable(Refs(static, instances), <<>>))

\* the FaceXModel object r.val, its three arrays allocated on the heap
FaceXModelObject(h, r) ==
    IF ~r.ok THEN [ok |-> FALSE, err |-> r.err, heap |-> h, val |-> None]
    ELSE [ ok |-> TRUE, err |-> "none",
           heap |-> Alloc(h, << Float64(r.val.generic_neutral_mesh),
                                Float64(r.val.identity_shape_modes),
                                Float64(r.val.expression_shape_modes) >>),
           val |-> Some([ generic_neutral_mesh |-> Len(h) + 1,
                          identity_shape_modes |-> Len(h) + 2,
                          expression_shape_modes |-> Len(h) + 3,
                          identity_names |-> r.val.identity_names,
                          expression_names |-> r.val.expression_names ]) ]

\* FaceModel.load_face_x_model: a new FaceXModel, its arrays newly allocated
LoadFaceXModel(h, dir, listing) ==
    FaceXModelObject(h, NewFaceXModel(dir, listing))

\* a variant of the constructor whose buffer is the neutral mesh's own array
FaceModelInitShallow(h, fxm) ==
    [ heap |-> Alloc(h, << Float64(Zeros(Len(h[fxm.identity_shape_modes].data))),
                           Float64(Zeros(Len(h[fxm.expression_shape_modes].data))) >>),
      self |-> [ generic_neutral_points |-> fxm.generic_neutral_mesh,
                 num_vertices |-> Len(h[fxm.generic_neutral_mesh].data),
                 deformed_points |-> fxm.generic_neutral_mesh,
                 identity_shape_modes |-> fxm.identity_shape_modes,
                 num_identities |-> Len(h[fxm.identity_shape_modes].data),
                 identity_weights |-> Len(h) + 1,
                 expression_shape_modes |-> fxm.expression_shape_modes,
                 num_expressions |-> Len(h[fxm.expression_shape_modes].data),
                 expression_weights |-> Len(h) + 2 ] ]

\* face_model.FaceModel.__init__ with no arguments, on the static model fxm:
\* references to the model's arrays, a deep copy of the neutral mesh as the
\* buffer, and new weight arrays
FaceModelInit(h, fxm) ==
    [ heap |-> Alloc(h, << h[fxm.generic_neutral_mesh],
                           Float64(Zeros(Len(h[fxm.identity_shape_modes].data))),
                           Float64(Zeros(Len(h[fxm.expression_shape_modes].data))) >>),
      self |-> [ generic_neutral_points |-> fxm.generic_neutral_mesh,
                 num_vertices |-> Len(h[fxm.generic_neutral_mesh].data),
                 deformed_points |-> Len(h) + 1,
                 identity_shape_modes |-> fxm.identity_shape_modes,
                 num_identities |-> Len(h[fxm.identity_shape_modes].data),
                 identity_weights |-> Len(h) + 2,
                 expression_shape_modes |-> fxm.expression_shape_modes,
                 num_expressions |-> Len(h[fxm.expression_shape_modes].data),
                 expression_weights |-> Len(h) + 3 ] ]

\* face_model.FaceModel.reset_mesh: deformed_points[:] = generic_neutral_points
FaceModelResetMesh(h, self) ==
    [h EXCEPT ![self.deformed_points].data = h[self.generic_neutral_points].data]

\* face_model.FaceModel._deform_mesh_helper on the points of the buffer:
\* zip cannot iterate a zero-dimensional array, and a string element times
\* a shape mode is a TypeError at the first pair
FaceModelDeformMeshHelper(points, weights, shape_modes) ==
    IF weights.zero_d
    THEN [points |-> points, err |-> "TypeError"]
    ELSE IF weights.dtype # "float64" /\ weights.data # <<>>
                                       /\ shape_modes.data # <<>>
    THEN [points |-> points, err |-> "TypeError"]
    ELSE [points |-> DeformMeshHelper(points, weights.data, shape_modes.data, 1),
          err |-> "none"]

\* the expression helper after the identity helper: an exception of the
\* first ends the call, the buffer left as it is
FaceModelDeformedPoints(h, self, ids) ==
    IF ids.err # "none" THEN ids
    ELSE FaceModelDeformMeshHelper(ids.points, h[self.expression_weights],
                                   h[self.expression_shape_modes])

FaceModelDeformed(h, self, r) ==
    [heap |-> [h EXCEPT ![self.deformed_points].data = r.points], err |-> r.err]

\* face_model.FaceModel.deform_mesh: the reset, then += on deformed_points
\* for the identity modes, then for the expression modes
FaceModelDeformMesh(h, self) ==
    FaceModelDeformed(h, self,
      FaceModelDeformedPoints(h, self,
        FaceModelDeformMeshHelper(h[self.generic_neutral_points].data,
                                  h[self.identity_weights],
                                  h[self.identity_shape_modes])))

\* face_model.FaceModel.sample_random_identity: identity_weights is bound to
\* the new array np.random.normal returns
FaceModelSampleRandomIdentity(h, self, sample) ==
    [ heap |-> Alloc(h, <<Float64(sample)>>),
      self |-> [self EXCEPT !.identity_weights = Len(h) + 1] ]

\* the instance built on the model just loaded or found in the static
\* variable, or the exception of the load
FaceModelBuilt(loaded, r) ==
    [heap |-> r.heap, static |-> loaded.val, self |-> Some(r.self), err |-> "none"]

FaceModelOn(loaded) ==
    IF ~loaded.ok
    THEN [heap |-> loaded.heap, static |-> None, self |-> None, err |-> loaded.err]
    ELSE FaceModelBuilt(loaded, FaceModelInit(loaded.heap, Get(loaded.val)))

\* a variant of the constructor that loads the FaceXModel every time
FaceModelNewReloading(h, static, dir, listing) ==
    FaceModelOn(LoadFaceXModel(h, dir, listing))

\* face_model.FaceModel(): load_face_x_model if the static variable is None,
\* then the instance on the static model
FaceModelNew(h, static, dir, listing) ==
    IF static = None
    THEN FaceModelOn(LoadFaceXModel(h, dir, listing))
    ELSE FaceModelOn([ok |-> TRUE, err |-> "none", heap |-> h, val |-> static])

(* --------------------- the coefficient documents ---------------------- *)

\* the JSON value of a field: a list of numbers, a list of strings, a
\* number or a string
JsonValue(kind, items) == [kind |-> kind, items |-> items]

\* a coefficient field: absent, a list of numbers, or something else
JsonFields ==
    {None}
      \cup {Some(JsonValue("numbers", items)) :
              items \in UNION {[1..n -> WeightVals] : n \in 0..MaxInputLen}}
      \cup {Some(JsonValue("strings", <<97>>)), Some(JsonValue("number", <<1>>)),
            Some(JsonValue("string", <<97>>))}

\* the file at the path: missing, or a JSON object with the two fields
JsonFiles ==
    {None} \cup {Some([identity_coefficients |-> a, expression_coefficients |-> b]) :
                   a \in JsonFields, b \in JsonFields}

\* np.array(value): numpy builds an array from whatever it is given
NpArray(value) ==
    NdArray(IF value.kind \in {"numbers", "number"} THEN "float64" ELSE "str",
            value.kind \in {"number", "string"},
            value.items)

\* face_model_io.read_coefficients
ReadCoefficients(file) ==
    IF file = None THEN Raise("FileNotFoundError")
    ELSE IF Get(file).identity_coefficients = None THEN Raise("KeyError")
    ELSE IF Get(file).expression_coefficients = None THEN Raise("KeyError")
    ELSE Ok(<<NpArray(Get(Get(file).identity_coefficients)),
              NpArray(Get(Get(file).expression_coefficients))>>)

\* the instance with its weights bound to the arrays at the two addresses
FaceModelBound(self, id_weights, ex_weights) ==
    [self EXCEPT !.identity_weights = id_weights,
                 !.expression_weights = ex_weights]

FaceModelRead(self, d) == [heap |-> d.heap, self |-> self, err |-> d.err]

\* a variant of read_face_model that keeps only as many coefficients as
\* the instance has shape modes
FaceModelStoreTruncated(h, self, r) ==
    IF ~r.ok THEN [heap |-> h, self |-> self, err |-> r.err]
    ELSE FaceModelRead(
           FaceModelBound(self, Len(h) + 1, Len(h) + 2),
           FaceModelDeformMesh(
             Alloc(h, << [r.val[1] EXCEPT !.data =
                            SliceTo(r.val[1].data, self.num_identities)],
                         [r.val[2] EXCEPT !.data =
                            SliceTo(r.val[2].data, self.num_expressions)] >>),
             FaceModelBound(self, Len(h) + 1, Len(h) + 2)))

FaceModelReadFaceModelTruncating(h, self, file) ==
    FaceModelStoreTruncated(h, self, ReadCoefficients(file))

\* the arrays r read from the file are bound to identity_weights and
\* expression_weights, and deform_mesh is called
FaceModelStore(h, self, r) ==
    IF ~r.ok THEN [heap |-> h, self |-> self, err |-> r.err]
    ELSE FaceModelRead(
           FaceModelBound(self, Len(h) + 1, Len(h) + 2),
           FaceModelDeformMesh(Alloc(h, <<r.val[1], r.val[2]>>),
                               FaceModelBound(self, Len(h) + 1, Len(h) + 2)))

\* face_model.FaceModel.read_face_model
FaceModelReadFaceModel(h, self, file) ==
    FaceModelStore(h, self, ReadCoefficients(file))

(* ------------------------------ the state ----------------------------- *)

VARIABLES
    fs,            \* the model directory at ModelPath
    face_model,    \* the client's ict_face_model.FaceModel instance, if any
    face_x_model,  \* the static variable face_model.FaceModel.face_x_model
    my_face,       \* the client's face_model.FaceModel instance, if any
    last_call,     \* the last call the client made: its name, argument, outcome
    scan,          \* the locals of a running _read_identity_morph_targets, if any
    deform,        \* the locals of a running FaceModel.deform_mesh, if any
    json_file,     \* the document at the path given to the coefficient readers
    returned,      \* what the last call returned to the client, if anything
    heap,          \* the numpy arrays of face_model.py's objects, by address
    faces          \* the face_model.FaceModel instances constructed so far

vars == <<fs, face_model, face_x_model, my_face, last_call, scan,
          deform, json_file, returned, heap, faces>>

\* the state the scripts leave alone unless they say otherwise
others == <<deform, json_file, returned, heap, faces>>

\* no deform_mesh is running, no document was read, no legacy object exists
Idle ==
    /\ deform = None
    /\ json_file = None
    /\ returned = None
    /\ heap = <<>>
    /\ faces = <<>>

\* the weight vectors a client passes in
Inputs == UNION {[1..n -> WeightVals] : n \in 0..MaxInputLen}

\* the vectors np.random.normal(size=k) may return
Samples(k) == [1..k -> WeightVals]

Called(op, arg, err) == [op |-> op, arg |-> arg, err |-> err]

\* a script that has constructed an ict_face_model.FaceModel and not loaded it
InitIo ==
    /\ fs \in Directories
    /\ face_model = Some(NewFaceModel)
    /\ face_x_model = None
    /\ my_face = None
    /\ last_call = Called("FaceModel", <<>>, "none")
    /\ scan = None
    /\ Idle

\* a client whose ict_face_model.FaceModel().load_model(ModelPath) returned
InitLoaded ==
    /\ fs \in Directories
    /\ \E listing \in Listings(IdentityFiles(fs)) :
          LET r == LoadModel(NewFaceModel, ModelPath, fs, listing)
          IN  /\ r.err = "none"
              /\ face_model = Some(r.self)
    /\ face_x_model = None
    /\ my_face = None
    /\ last_call = Called("load_model", <<>>, "none")
    /\ scan = None
    /\ Idle

\* a client of face_model.py whose first FaceModel() returned: the
\* constructor loaded the static FaceXModel and built the instance on it
InitLegacy ==
    /\ fs \in Directories
    /\ \E listing \in Listings(ObjFiles(fs)) :
          LET r == NewFaceXModel(fs, listing)
          IN  /\ r.ok
              /\ face_x_model = Some(r.val)
              /\ my_face = Some(NewLegacyFaceModel(r.val))
    /\ face_model = None
    /\ last_call = Called("face_model.FaceModel", <<>>, "none")
    /\ scan = None
    /\ Idle

\* a client holds a loaded model of one of the two classes
Init == InitLoaded \/ InitLegacy

\* face_model = face_model_io.load_face_model(ModelPath)
load_face_model ==
    LET r == IoLoadModel(ModelPath, fs)
    IN  /\ face_model' = IF r.ok THEN Some(r.val) ELSE face_model
        /\ last_call' = Called("load_face_model", <<>>, r.err)
        /\ UNCHANGED <<fs, face_x_model, my_face, scan, others>>

\* the methods of ict_face_model.FaceModel, on the client's instance
Method(op, arg, r) ==
    /\ face_model' = Some(r.self)
    /\ last_call' = Called(op, arg, r.err)
    /\ UNCHANGED <<fs, face_x_model, my_face, scan, others>>

load_model ==
    /\ face_model # None
    /\ \E listing \in Listings(IdentityFiles(fs)) :
          Method("load_model", <<>>,
                 LoadModel(Get(face_model), ModelPath, fs, listing))

set_identity ==
    /\ face_model # None
    /\ \E identity_weights \in Inputs :
          Method("set_identity", identity_weights,
                 SetIdentity(Get(face_model), identity_weights))

set_expression ==
    /\ face_model # None
    /\ \E expression_weights \in Inputs :
          Method("set_expression", expression_weights,
                 SetExpression(Get(face_model), expression_weights))

randomize_identity ==
    /\ face_model # None
    /\ \E sample \in (IF Get(face_model)._model_loaded
                      THEN Samples(Get(Get(face_model)._num_identities))
                      ELSE {<<>>}) :
          Method("randomize_identity", <<>>,
                 RandomizeIdentity(Get(face_model), sample))

reset_mesh ==
    /\ face_model # None
    /\ Method("reset_mesh", <<>>, ResetMesh(Get(face_model)))

deform_mesh ==
    /\ face_model # None
    /\ Method("deform_mesh", <<>>, DeformMesh(Get(face_model)))

get_deformed_mesh ==
    /\ face_model # None
    /\ Method("get_deformed_mesh", <<>>, GetDeformedMesh(Get(face_model)))

\* the methods of face_model.FaceModel, on the client's instance
LegacyMethod(op, self) ==
    /\ my_face' = Some(self)
    /\ last_call' = Called(op, <<>>, "none")
    /\ UNCHANGED <<fs, face_model, face_x_model, scan, others>>

legacy_reset_mesh ==
    /\ my_face # None
    /\ LegacyMethod("face_model.reset_mesh", LegacyResetMesh(Get(my_face)))

legacy_deform_mesh ==
    /\ my_face # None
    /\ LegacyMethod("face_model.deform_mesh", LegacyDeformMesh(Get(my_face)))

sample_random_identity ==
    /\ my_face # None
    /\ \E sample \in Samples(Get(my_face).num_identities) :
          LegacyMethod("face_model.sample_random_identity",
                       SampleRandomIdentity(Get(my_face), sample))

\* a client of either class working on its loaded model
Next ==
    \/ load_model
    \/ set_identity
    \/ set_expression
    \/ randomize_identity
    \/ reset_mesh
    \/ deform_mesh
    \/ get_deformed_mesh
    \/ legacy_reset_mesh
    \/ legacy_deform_mesh
    \/ sample_random_identity

Spec == Init /\ [][Next]_vars

\* a client of face_model_io, which loads with load_face_model as the
\* scripts sample_random.py, read_identity.py and face_model_test.py do
NextIo ==
    \/ load_face_model
    \/ set_identity
    \/ set_expression
    \/ randomize_identity
    \/ reset_mesh
    \/ deform_mesh
    \/ get_deformed_mesh

SpecIo == InitIo /\ [][NextIo]_vars

\* a script that is about to call load_face_model on any directory
InitScript ==
    /\ fs \in LoaderDirectories
    /\ face_model = None
    /\ face_x_model = None
    /\ my_face = None
    /\ last_call = Called("main", <<>>, "none")
    /\ scan = None
    /\ Idle

\* the loaders: load_face_model on any directory, and the constructor of
\* face_model.FaceModel, which has loaded the static FaceXModel
InitLoad == InitScript \/ InitLegacy

NextLoad == load_face_model

SpecLoad == InitLoad /\ [][NextLoad]_vars

\* load_face_model has entered the loop of _read_identity_morph_targets
InitScan ==
    /\ fs \in LoaderDirectories
    /\ face_model = None
    /\ face_x_model = None
    /\ my_face = None
    /\ last_call = Called("_read_identity_morph_targets", <<>>, "none")
    /\ scan = Some(StartScan)
    /\ Idle

\* one iteration of the loop
probe_identity ==
    /\ scan # None
    /\ ~Get(scan).done
    /\ scan' = Some(ProbeIdentity(fs, Get(scan)))
    /\ UNCHANGED <<fs, face_model, face_x_model, my_face, last_call, others>>

NextScan == probe_identity

\* the interpreter runs the loop on: an iteration that can be taken is taken
SpecScan == InitScan /\ [][NextScan]_vars /\ WF_vars(probe_identity)

\* the instances a client of face_model.py constructs
FaceIds == {1, 2}

\* the FaceXModel directories of the clients of face_model.py: the neutral
\* mesh at the origin, one expression, any run of identities
FaceDirectories ==
    {dir \in Directories :
        /\ Get(dir.neutral) = <<(<<0, 0, 0>>)>>
        /\ Get(dir.obj["smile"]) = <<(<<1, 0, 0>>)>>}

\* a client of face_model.py that has constructed nothing yet
InitFaces ==
    /\ fs \in FaceDirectories
    /\ face_model = None
    /\ face_x_model = None
    /\ my_face = None
    /\ last_call = Called("main", <<>>, "none")
    /\ scan = None
    /\ Idle

\* the outcome of a call on face_model.py's objects
FaceReturn(op, arg, err, kept) ==
    /\ heap' = kept.heap
    /\ face_x_model' = kept.static
    /\ faces' = kept.instances
    /\ last_call' = Called(op, arg, err)
    /\ UNCHANGED <<fs, face_model, my_face, scan, deform, json_file, returned>>

\* what became unreachable during the call is reclaimed
FaceCall(op, arg, err, h, static, instances) ==
    FaceReturn(op, arg, err, Collect(h, static, instances))

Constructed(r) ==
    FaceCall("face_model.FaceModel", <<Len(faces) + 1>>, r.err,
             r.heap, r.static,
             IF r.self = None THEN faces ELSE Append(faces, Get(r.self)))

\* faces[i] = FaceModel()
new_face ==
    /\ Len(faces) < Cardinality(FaceIds)
    /\ \E listing \in Listings(ObjFiles(fs)) :
          Constructed(FaceModelNew(heap, face_x_model, fs, listing))

StaticLoaded(r) ==
    FaceCall("load_face_x_model", <<>>, r.err, r.heap,
             IF r.ok THEN r.val ELSE face_x_model, faces)

\* FaceModel.load_face_x_model()
load_face_x_model ==
    \E listing \in Listings(ObjFiles(fs)) :
       StaticLoaded(LoadFaceXModel(heap, fs, listing))

\* faces[i].reset_mesh()
face_reset_mesh ==
    \E i \in DOMAIN faces :
       FaceCall("face_model.reset_mesh", <<i>>, "none",
                FaceModelResetMesh(heap, faces[i]), face_x_model, faces)

MeshDeformed(i, r) ==
    FaceCall("face_model.deform_mesh", <<i>>, r.err, r.heap, face_x_model, faces)

\* faces[i].deform_mesh()
face_deform_mesh ==
    \E i \in DOMAIN faces :
       MeshDeformed(i, FaceModelDeformMesh(heap, faces[i]))

Sampled(i, r) ==
    FaceCall("face_model.sample_random_identity", <<i>>, "none",
             r.heap, face_x_model, [faces EXCEPT ![i] = r.self])

\* faces[i].sample_random_identity()
face_sample_random_identity ==
    \E i \in DOMAIN faces :
       \E sample \in Samples(faces[i].num_identities) :
          Sampled(i, FaceModelSampleRandomIdentity(heap, faces[i], sample))

\* faces[i].identity_weights[k] = w and faces[i].expression_weights[k] = w:
\* the client writes the public weight arrays
face_assign_weight ==
    \E i \in DOMAIN faces :
       \E a \in {faces[i].identity_weights, faces[i].expression_weights} :
          \E k \in DOMAIN heap[a].data, w \in WeightVals :
             FaceCall("face_model.weights", <<i>>, "none",
                      [heap EXCEPT ![a].data[k] = w], face_x_model, faces)

NextFaces ==
    \/ new_face
    \/ load_face_x_model
    \/ face_reset_mesh
    \/ face_deform_mesh
    \/ face_sample_random_identity
    \/ face_assign_weight

\* clients of face_model.py working on up to two instances
SpecFaces == InitFaces /\ [][NextFaces]_vars

\* the state FaceModel() leaves when it is the first call of a script
FirstFace(r) ==
    /\ r.err = "none"
    /\ heap = r.heap
    /\ face_x_model = r.static
    /\ faces = <<Get(r.self)>>

\* a script that holds one face_model.FaceModel() and a path to a file
InitRead ==
    /\ fs \in FaceDirectories
    /\ \E listing \in Listings(ObjFiles(fs)) :
          FirstFace(FaceModelNew(<<>>, None, fs, listing))
    /\ json_file \in JsonFiles
    /\ face_model = None
    /\ my_face = None
    /\ last_call = Called("face_model.FaceModel", <<1>>, "none")
    /\ scan = None
    /\ deform = None
    /\ returned = None

\* id_coeffs, ex_coeffs = face_model_io.read_coefficients(path)
read_coefficients ==
    LET r == ReadCoefficients(json_file)
    IN  /\ returned' = IF r.ok THEN Some(r.val) ELSE None
        /\ last_call' = Called("read_coefficients", <<>>, r.err)
        /\ UNCHANGED <<fs, face_model, face_x_model, my_face, scan, deform,
                       json_file, heap, faces>>

FaceModelWasRead(i, r) ==
    FaceCall("face_model.read_face_model", <<i>>, r.err, r.heap,
             face_x_model, [faces EXCEPT ![i] = r.self])

\* faces[i].read_face_model(path)
face_read_face_model ==
    \E i \in DOMAIN faces :
       FaceModelWasRead(i, FaceModelReadFaceModel(heap, faces[i], json_file))

NextRead ==
    \/ read_coefficients
    \/ face_read_face_model
    \/ face_reset_mesh
    \/ face_deform_mesh

\* the scripts that read coefficients from a file
SpecRead == InitRead /\ [][NextRead]_vars

\* deform_mesh() is called: the check and the reset run
deform_mesh_enter ==
    /\ face_model # None
    /\ deform = None
    /\ LET r == DeformMeshEnter(Get(face_model))
       IN  /\ face_model' = Some(r.self)
           /\ deform' = r.at
           /\ last_call' = Called("deform_mesh", <<>>,
                                  IF r.at = None THEN r.err ELSE "pending")
    /\ UNCHANGED <<fs, face_x_model, my_face, scan, json_file, returned,
                   heap, faces>>

\* the loop of the running helper adds one contribution; after the last
\* one deform_mesh returns
deform_mesh_step ==
    /\ deform # None
    /\ LET r == DeformMeshStep(Get(face_model), Get(deform))
       IN  /\ face_model' = Some(r.self)
           /\ deform' = r.at
           /\ last_call' = Called("deform_mesh", <<>>,
                                  IF r.at = None THEN "none" ELSE "pending")
    /\ UNCHANGED <<fs, face_x_model, my_face, scan, json_file, returned,
                   heap, faces>>

\* the running deform_mesh is ended by an exception raised between two
\* statements (KeyboardInterrupt, MemoryError): nothing is undone
deform_mesh_raise ==
    /\ deform # None
    /\ deform' = None
    /\ last_call' = Called("deform_mesh", <<>>, "Exception")
    /\ UNCHANGED <<fs, face_model, face_x_model, my_face, scan, json_file,
                   returned, heap, faces>>

\* the client changes the weights between two calls of deform_mesh
change_weights ==
    /\ deform = None
    /\ (set_identity \/ set_expression \/ randomize_identity)

NextDeform ==
    \/ deform_mesh_enter
    \/ deform_mesh_step
    \/ deform_mesh_raise
    \/ change_weights

\* deform_mesh statement by statement, on a loaded model
SpecDeform == InitLoaded /\ [][NextDeform]_vars

\* the directories a model directory may turn into between two loads: one
\* listed expression, its file and the neutral mesh present or not, the
\* neutral mesh of one or two vertices, and identity000, identity001 or
\* neither
ReloadDirectories ==
    {dir \in LoaderDirectories :
        /\ dir.config = Some([expressions |-> Some(<<"smile">>)])
        /\ dir.obj["frown"] = None
        /\ \A name \in ObjNames :
              dir.obj[name] \in {None, Some(<<(<<1, 0, 0>>)>>)}
        /\ IdentityFiles(dir) \in {{}, {"identity000"},
                                   {"identity000", "identity001"}}}

\* the files of the model directory are replaced on disk
replace_directory ==
    /\ fs' \in ReloadDirectories
    /\ fs' # fs
    /\ last_call' = Called("main", <<>>, "none")
    /\ UNCHANGED <<face_model, face_x_model, my_face, scan, others>>

NextReload ==
    \/ replace_directory
    \/ load_model

\* a client that calls load_model again on its instance
SpecReload == InitLoaded /\ [][NextReload]_vars

\* the complete model directories with up to two identities
PresetDirectories ==
    {dir \in ReloadDirectories :
        dir.neutral # None /\ dir.obj["smile"] # None}

\* a script that has constructed an ict_face_model.FaceModel and may set
\* weights on it before it calls load_model
InitPreset ==
    /\ fs \in PresetDirectories
    /\ face_model = Some(NewFaceModel)
    /\ face_x_model = None
    /\ my_face = None
    /\ last_call = Called("FaceModel", <<>>, "none")
    /\ scan = None
    /\ Idle

NextPreset ==
    \/ set_identity
    \/ set_expression
    \/ load_model

SpecPreset == InitPreset /\ [][NextPreset]_vars

\* complete one-vertex model directories some of whose identity files
\* exist but cannot be read
UnreadableDirectories ==
    UNION {
      {[dir EXCEPT !.unreadable = files] : files \in SUBSET IdentityFiles(dir)} :
      dir \in {d \in LoaderDirectories :
                 /\ d.config = Some([expressions |-> Some(<<"smile">>)])
                 /\ d.neutral = Some(<<(<<0, 0, 0>>)>>)
                 /\ d.obj["smile"] # None
                 /\ d.obj["frown"] = None
                 /\ \A name \in ObjNames :
                       d.obj[name] \in {None, Some(<<(<<1, 0, 0>>)>>)}} }

\* load_face_model on such a directory, its scan entered
InitUnreadable ==
    /\ fs \in UnreadableDirectories
    /\ face_model = None
    /\ face_x_model = None
    /\ my_face = None
    /\ last_call = Called("_read_identity_morph_targets", <<>>, "none")
    /\ scan = Some(StartScan)
    /\ Idle

NextUnreadable ==
    \/ probe_identity
    \/ load_face_model

\* the identity scan, iteration by iteration and as a whole, on directories
\* with unreadable identity files
SpecUnreadable == InitUnreadable /\ [][NextUnreadable]_vars

(* ======================= the claims of the spec ======================= *)

\* the client's ict_face_model.FaceModel, when it exists and is loaded
Loaded == face_model # None /\ Get(face_model)._model_loaded

FM == Get(face_model)

Neutral == Get(FM._generic_neutral_mesh)

Buffer == Get(FM._deformed_vertices)

IdWeights == Get(FM._identity_weights)

ExWeights == Get(FM._expression_weights)

IdModes == Get(FM._identity_shape_modes)

ExModes == Get(FM._expression_shape_modes)

K_id == Len(IdModes)

K_ex == Len(ExModes)

AllZero(w) == \A i \in 1..Len(w) : w[i] = 0

Returned(op) == last_call.op = op /\ last_call.err = "none"

\* C1: a model returned by load_face_model is Loaded: randomize_identity,
\* deform_mesh and get_deformed_mesh on it do not fail with 'not loaded'.
C1_LoadFaceModelIsLoaded ==
    (/\ face_model # None
     /\ FM._model_initialized
     /\ last_call.op \in {"randomize_identity", "deform_mesh", "get_deformed_mesh"})
    => last_call.err # "NotLoaded"

\* C2: deform_mesh with all-zero identity and expression weights leaves the
\* buffer equal to the neutral vertices, in both FaceModel classes.
C2_ZeroWeightIdentity ==
    /\ (Loaded /\ Returned("deform_mesh") /\ AllZero(IdWeights) /\ AllZero(ExWeights))
       => Buffer = Neutral
    /\ (/\ my_face # None
        /\ Returned("face_model.deform_mesh")
        /\ AllZero(Get(my_face).identity_weights)
        /\ AllZero(Get(my_face).expression_weights))
       => Get(my_face).deformed_points = Get(my_face).generic_neutral_points

\* C2's case: deform_mesh has just returned on a model with a mode that is
\* not zero, all weights zero
C2_Witness ==
    /\ Loaded /\ Returned("deform_mesh")
    /\ AllZero(IdWeights) /\ AllZero(ExWeights)
    /\ K_id = 1 /\ IdModes[1][1] # <<0, 0, 0>>

\* the sum of one coordinate in the order of the claim: start at acc, add
\* weight[i] * mode[i][v][c] for i ascending
RECURSIVE SumFrom(_, _, _, _, _, _)
SumFrom(acc, weights, modes, i, v, c) ==
    IF i > Len(modes) THEN acc
    ELSE SumFrom(Fl(acc + Fl(weights[i] * modes[i][v][c])), weights, modes, i + 1, v, c)

ExTarget(k) == Get(fs.obj[Get(FM._expression_names)[k]])

IdTarget(k) == Get(fs.obj[Get(FM._identity_names)[k]])

\* weight 1 on mode k and 0 on every other mode of the vector
Unit(w, k) == \A i \in 1..Len(w) : w[i] = (IF i = k THEN 1 ELSE 0)

\* the original C4, without the condition on rounding: neutral + m equals
\* T at every vertex, and deforming under weight 1 on m alone reproduces T
C4_RoundTripAlways ==
    Loaded =>
        \A v \in 1..Len(Neutral), c \in 1..Dim :
            /\ \A k \in 1..K_ex :
                  /\ Fl(Neutral[v][c] + ExModes[k][v][c]) = Row(ExTarget(k), v)[c]
                  /\ (Returned("deform_mesh") /\ Unit(ExWeights, k) /\ AllZero(IdWeights))
                     => Buffer[v][c] = Row(ExTarget(k), v)[c]
            /\ \A k \in 1..K_id :
                  /\ Fl(Neutral[v][c] + IdModes[k][v][c]) = Row(IdTarget(k), v)[c]
                  /\ (Returned("deform_mesh") /\ Unit(IdWeights, k) /\ AllZero(ExWeights))
                     => Buffer[v][c] = Row(IdTarget(k), v)[c]

\* C4 (amended): for every shape mode m computed from T against G,
\* neutral + m equals T, and deforming under weight 1 on m alone reproduces
\* T, at every vertex coordinate whose difference T - G is computed without
\* rounding.
C4_RoundTripWhereExact ==
    Loaded =>
        \A v \in 1..Len(Neutral), c \in 1..Dim :
            /\ \A k \in 1..K_ex :
                  Representable(Row(ExTarget(k), v)[c] - Neutral[v][c]) =>
                      /\ Fl(Neutral[v][c] + ExModes[k][v][c]) = Row(ExTarget(k), v)[c]
                      /\ (Returned("deform_mesh") /\ Unit(ExWeights, k) /\ AllZero(IdWeights))
                         => Buffer[v][c] = Row(ExTarget(k), v)[c]
            /\ \A k \in 1..K_id :
                  Representable(Row(IdTarget(k), v)[c] - Neutral[v][c]) =>
                      /\ Fl(Neutral[v][c] + IdModes[k][v][c]) = Row(IdTarget(k), v)[c]
                      /\ (Returned("deform_mesh") /\ Unit(IdWeights, k) /\ AllZero(ExWeights))
                         => Buffer[v][c] = Row(IdTarget(k), v)[c]

\* C4's case: deform_mesh has returned under weight 1 on an identity mode
\* alone, whose target differs from the neutral mesh, and the buffer is the
\* target
C4_Witness ==
    /\ Loaded /\ Returned("deform_mesh")
    /\ K_id = 1 /\ IdWeights = <<1>> /\ AllZero(ExWeights)
    /\ Neutral = <<(<<1, 0, 0>>)>> /\ IdTarget(1) = <<(<<0, 0, 0>>)>>
    /\ Buffer = IdTarget(1)

\* what deform_mesh yields on the loaded model under the given weights
Deformed(id_weights, ex_weights) ==
    DeformedVertices(Neutral, id_weights, IdModes, ex_weights, ExModes)

\* the weights c * w and w1 + w2, as the caller computes them
Scaled(s, w) == [i \in 1..Len(w) |-> Fl(s * w[i])]

Summed(w1, w2) == [i \in 1..Len(w1) |-> Fl(w1[i] + w2[i])]

\* the sum of a coordinate in real arithmetic
RECURSIVE RealSumFrom(_, _, _, _, _, _)
RealSumFrom(acc, weights, modes, i, v, c) ==
    IF i > Len(modes) THEN acc
    ELSE RealSumFrom(acc + weights[i] * modes[i][v][c], weights, modes, i + 1, v, c)

\* no product and no partial sum of the accumulation rounds
RECURSIVE ExactFrom(_, _, _, _, _, _)
ExactFrom(acc, weights, modes, i, v, c) ==
    IF i > Len(modes) THEN TRUE
    ELSE /\ Representable(weights[i] * modes[i][v][c])
         /\ Representable(acc + weights[i] * modes[i][v][c])
         /\ ExactFrom(acc + weights[i] * modes[i][v][c], weights, modes, i + 1, v, c)

\* deforming under the given weights is free of rounding at coordinate v, c
NoRounding(id_weights, ex_weights, v, c) ==
    /\ ExactFrom(Neutral[v][c], id_weights, IdModes, 1, v, c)
    /\ ExactFrom(RealSumFrom(Neutral[v][c], id_weights, IdModes, 1, v, c),
                 ex_weights, ExModes, 1, v, c)

\* the original C5, without the condition on rounding, its right-hand side
\* read in real arithmetic or in float64 arithmetic
C5_LinearityAlways ==
    (Loaded /\ Returned("deform_mesh")) =>
        \A s \in Scalars, v \in 1..Len(Neutral), c \in 1..Dim :
            LET lhs == Deformed(Scaled(s, IdWeights), Scaled(s, ExWeights))[v][c]
            IN  \/ lhs = Neutral[v][c] + s * (Buffer[v][c] - Neutral[v][c])
                \/ lhs = Fl(Neutral[v][c] + Fl(s * Fl(Buffer[v][c] - Neutral[v][c])))

\* C5 (amended): deform_mesh under weights c*w yields
\* neutral + c*(deformed(w) - neutral) at every vertex coordinate where
\* neither deformation rounds (the products c*w[i] included).
C5_LinearityWhereExact ==
    (Loaded /\ Returned("deform_mesh")) =>
        \A s \in Scalars, v \in 1..Len(Neutral), c \in 1..Dim :
            (/\ NoRounding(IdWeights, ExWeights, v, c)
             /\ \A i \in 1..K_id : Representable(s * IdWeights[i])
             /\ \A i \in 1..K_ex : Representable(s * ExWeights[i])
             /\ NoRounding(Scaled(s, IdWeights), Scaled(s, ExWeights), v, c))
            => Deformed(Scaled(s, IdWeights), Scaled(s, ExWeights))[v][c]
                   = Neutral[v][c] + s * (Buffer[v][c] - Neutral[v][c])

\* C5's case: deform_mesh has returned under nonzero identity and
\* expression weights on nonzero modes, and scaling by 3 does not round
C5_Witness ==
    /\ Loaded /\ Returned("deform_mesh")
    /\ K_id = 1 /\ IdWeights = <<1>> /\ ExWeights = <<1>>
    /\ IdModes[1][1] = <<1, 0, 0>> /\ ExModes[1][1] = <<1, 0, 0>>
    /\ \A c \in 1..Dim :
          /\ NoRounding(IdWeights, ExWeights, 1, c)
          /\ NoRounding(Scaled(3, IdWeights), Scaled(3, ExWeights), 1, c)
    /\ Buffer # Neutral

\* the weight assignments of the loaded model
IdAssignments == [1..K_id -> WeightVals]

ExAssignments == [1..K_ex -> WeightVals]

\* the original C6, without the condition on rounding, its right-hand side
\* read in real arithmetic or in float64 arithmetic
C6_AdditivityAlways ==
    (Loaded /\ Returned("deform_mesh")) =>
        \A id2 \in IdAssignments, ex2 \in ExAssignments :
            \A v \in 1..Len(Neutral), c \in 1..Dim :
                LET lhs == Deformed(Summed(IdWeights, id2), Summed(ExWeights, ex2))[v][c]
                    d2 == Deformed(id2, ex2)[v][c]
                    n == Neutral[v][c]
                IN  \/ lhs = n + (Buffer[v][c] - n) + (d2 - n)
                    \/ lhs = Fl(Fl(n + Fl(Buffer[v][c] - n)) + Fl(d2 - n))

\* C6 (amended): deform_mesh under weights w1+w2 yields
\* neutral + (deformed(w1) - neutral) + (deformed(w2) - neutral) at every
\* vertex coordinate where none of the three deformations rounds.
C6_AdditivityWhereExact ==
    (Loaded /\ Returned("deform_mesh")) =>
        \A id2 \in IdAssignments, ex2 \in ExAssignments :
            \A v \in 1..Len(Neutral), c \in 1..Dim :
                (/\ NoRounding(IdWeights, ExWeights, v, c)
                 /\ NoRounding(id2, ex2, v, c)
                 /\ \A i \in 1..K_id : Representable(IdWeights[i] + id2[i])
                 /\ \A i \in 1..K_ex : Representable(ExWeights[i] + ex2[i])
                 /\ NoRounding(Summed(IdWeights, id2), Summed(ExWeights, ex2), v, c))
                => Deformed(Summed(IdWeights, id2), Summed(ExWeights, ex2))[v][c]
                       = Neutral[v][c] + (Buffer[v][c] - Neutral[v][c])
                                       + (Deformed(id2, ex2)[v][c] - Neutral[v][c])

\* C6's case: deform_mesh has returned under a nonzero identity weight on a
\* nonzero mode, and adding the expression weight <<1>> does not round
C6_Witness ==
    /\ Loaded /\ Returned("deform_mesh")
    /\ K_id = 1 /\ IdWeights = <<1>> /\ ExWeights = <<0>>
    /\ IdModes[1][1] = <<1, 0, 0>> /\ ExModes[1][1] = <<1, 0, 0>>
    /\ \A c \in 1..Dim :
          /\ NoRounding(IdWeights, ExWeights, 1, c)
          /\ NoRounding(<<0>>, <<1>>, 1, c)
          /\ NoRounding(<<1>>, <<1>>, 1, c)
    /\ Buffer # Neutral

\* the entries 1..k of a vector
FirstEntries(w, k) == [i \in 1..k |-> w[i]]

\* C7: on a loaded model with K_id identity modes, set_identity(weights)
\* with len(weights) >= K_id reports no error and leaves a stored vector of
\* length K_id holding the first K_id entries of weights.
C7_SetIdentityTruncates ==
    (Loaded /\ last_call.op = "set_identity" /\ Len(last_call.arg) >= K_id) =>
        /\ last_call.err = "none"
        /\ IdWeights = FirstEntries(last_call.arg, K_id)

\* C7's case: set_identity has returned on a model with one identity mode,
\* given two weights, and the stored vector is the first of them
C7_Witness ==
    /\ Loaded /\ Returned("set_identity")
    /\ K_id = 1 /\ last_call.arg = <<1, 0>>
    /\ IdWeights = <<1>>

\* C8: on a loaded model with K_ex expression modes, set_expression(weights)
\* with len(weights) >= K_ex reports no error and leaves a stored vector
\* holding weights[0..K_ex-1].
C8_SetExpressionHeadSlice ==
    (Loaded /\ last_call.op = "set_expression" /\ Len(last_call.arg) >= K_ex) =>
        /\ last_call.err = "none"
        /\ ExWeights = FirstEntries(last_call.arg, K_ex)

\* the vector that holds given[i] at the positions of given and prior
\* elsewhere
Overwritten(prior, given) ==
    [i \in 1..Len(prior) |-> IF i <= Len(given) THEN given[i] ELSE prior[i]]

\* C9: on a loaded model, set_identity(weights) and set_expression(weights)
\* with fewer weights than modes report no error, store the given entries at
\* the first positions and leave the other stored entries at their prior
\* values.
C9_ShorterInputKeepsRest ==
    [][/\ (Loaded /\ last_call'.op = "set_identity" /\ Len(last_call'.arg) < K_id)
          => /\ last_call'.err = "none"
             /\ Get(Get(face_model')._identity_weights)
                    = Overwritten(IdWeights, last_call'.arg)
       /\ (Loaded /\ last_call'.op = "set_expression" /\ Len(last_call'.arg) < K_ex)
          => /\ last_call'.err = "none"
             /\ Get(Get(face_model')._expression_weights)
                    = Overwritten(ExWeights, last_call'.arg)]_vars

\* C10: set_identity, set_expression and randomize_identity (and
\* sample_random_identity of face_model.py) leave the deformed vertex buffer
\* unchanged, and among the methods of a loaded instance only reset_mesh and
\* deform_mesh change it.
C10_WeightsDoNotDeform ==
    [][/\ Loaded =>
            /\ last_call'.op \in {"set_identity", "set_expression", "randomize_identity"}
               => Get(face_model')._deformed_vertices = FM._deformed_vertices
            /\ (/\ Get(face_model')._deformed_vertices # FM._deformed_vertices
                /\ last_call'.op # "load_model")
               => last_call'.op \in {"reset_mesh", "deform_mesh"}
       /\ my_face # None =>
            /\ last_call'.op = "face_model.sample_random_identity"
               => Get(my_face').deformed_points = Get(my_face).deformed_points
            /\ Get(my_face').deformed_points # Get(my_face).deformed_points
               => last_call'.op \in {"face_model.reset_mesh", "face_model.deform_mesh"}
      ]_vars

\* C10's case: set_identity has returned with weights under which
\* deform_mesh would give another buffer than the one the model still holds
C10_Witness ==
    /\ Loaded /\ Returned("set_identity")
    /\ K_id = 1 /\ IdWeights = <<1>>
    /\ Buffer # Neutral
    /\ Buffer # Deformed(IdWeights, ExWeights)


\* the methods that require a loaded model
RequireLoaded == {"randomize_identity", "reset_mesh", "deform_mesh", "get_deformed_mesh"}

\* C11: on an ict_face_model.FaceModel that is not loaded, each of
\* randomize_identity, reset_mesh, deform_mesh and get_deformed_mesh fails
\* with 'Face Model not loaded but required.' and leaves every field of the
\* instance as it was.
C11_NotLoadedHasNoEffect ==
    [][(face_model # None /\ ~FM._model_loaded /\ last_call'.op \in RequireLoaded)
       => (last_call'.err = "NotLoaded" /\ face_model' = face_model)]_vars

\* C11's case: deform_mesh has failed on an instance that was never loaded
\* and holds the identity weights a client set, untouched
C11_Witness ==
    /\ face_model # None /\ ~FM._model_loaded /\ ~FM._model_initialized
    /\ last_call.op = "deform_mesh" /\ last_call.err = "NotLoaded"
    /\ FM._identity_weights = Some(<<1>>)
    /\ FM._deformed_vertices = None


C13_InitialState ==
    /\ Returned("load_face_model") =>
          /\ face_model # None
          /\ IdWeights = Zeros(K_id) /\ K_id = Len(Get(FM._identity_names))
          /\ ExWeights = Zeros(K_ex) /\ K_ex = Len(Get(FM._expression_names))
          /\ Neutral = Get(fs.neutral)
          /\ Buffer = Neutral
    /\ last_call.op = "face_model.FaceModel" =>
          /\ my_face # None
          /\ Get(my_face).identity_weights
                = Zeros(Len(Get(face_x_model).identity_shape_modes))
          /\ Get(my_face).expression_weights
                = Zeros(Len(Get(face_x_model).expression_shape_modes))
          /\ Get(my_face).generic_neutral_points = Get(fs.neutral)
          /\ Get(my_face).deformed_points = Get(my_face).generic_neutral_points

\* C13's case: load_face_model has returned a model with three identity
\* modes and two expression modes over a neutral mesh of two vertices
C13_Witness ==
    /\ Returned("load_face_model") /\ face_model # None
    /\ K_id = 3 /\ K_ex = 2 /\ Len(Neutral) = 2
    /\ IdWeights = <<0, 0, 0>> /\ ExWeights = <<0, 0>>


\* the expression names vertex_indices.json lists, when it can be read and
\* has the key
Configured == Get(Get(fs.config).expressions)

\* the directory lacks something the load cannot do without
FatalDirectory ==
    \/ fs.config = None
    \/ Get(fs.config).expressions = None
    \/ fs.neutral = None
    \/ \E j \in 1..Len(Configured) : fs.obj[Configured[j]] = None

\* C14: when the configuration cannot be read or lacks 'expressions', the
\* neutral mesh cannot be read, or the file of a listed expression cannot be
\* read, load_face_model raises and the caller gets no model.
C14_FatalLoadFailures ==
    (last_call.op = "load_face_model" /\ FatalDirectory) =>
        /\ last_call.err # "none"
        /\ face_model = None
        /\ ~IoLoadModel(ModelPath, fs).ok
        /\ IoLoadModel(ModelPath, fs).val = None

\* C14's case: load_face_model has failed on a directory that has the
\* configuration, the neutral mesh and smile.obj but not the listed frown.obj
C14_Witness ==
    /\ last_call.op = "load_face_model" /\ last_call.err = "RuntimeError"
    /\ fs.config # None /\ Get(fs.config).expressions = Some(<<"smile", "frown">>)
    /\ fs.neutral # None /\ fs.obj["smile"] # None /\ fs.obj["frown"] = None
    /\ face_model = None


\* target - neutral, vertex by vertex, in float64
Delta(target, neutral) ==
    [i \in 1..Len(neutral) |->
        [c \in 1..Dim |-> Fl(Row(target, i)[c] - neutral[i][c])]]

\* C15: after a successful load_face_model the expression names are the
\* configured names in configuration order, and expression mode j is
\* computed from the mesh of '<j-th configured name>.obj'.
C15_ExpressionOrder ==
    Returned("load_face_model") =>
        /\ face_model # None
        /\ Get(FM._expression_names) = Configured
        /\ K_ex = Len(Configured)
        /\ \A j \in 1..Len(Configured) :
              ExModes[j] = Delta(Get(fs.obj[Configured[j]]), Neutral)

\* C15's case: load_face_model has returned for a configuration that lists
\* frown before smile, whose meshes give different modes
C15_Witness ==
    /\ Returned("load_face_model") /\ face_model # None
    /\ Configured = <<"frown", "smile">>
    /\ Get(FM._expression_names) = <<"frown", "smile">>
    /\ ExModes[1] # ExModes[2]


\* the first index k for which identity{k}.obj is missing
FirstMissing ==
    CHOOSE k \in 0..Len(IdentityNames) :
        /\ \A n \in 0..(k - 1) : fs.obj[IdentityName(n)] # None
        /\ k < Len(IdentityNames) => fs.obj[IdentityName(k)] = None

\* the names identity000 .. identity{k-1}
FirstIdentities(k) == [i \in 1..k |-> IdentityName(i - 1)]

\* C16: the identity scan probes identity000, identity001, ... in ascending
\* contiguous order, always terminates, and stops without error at the first
\* missing index k; the model then has exactly the k identities
\* identity000 .. identity{k-1}, in that order, and no file after the gap.
C16_ScanStopsAtFirstGap ==
    /\ [](scan # None =>
           /\ Get(scan).identityNum <= FirstMissing
           /\ Get(scan).id_names = FirstIdentities(Get(scan).identityNum)
           /\ Get(scan).id_meshes =
                 [i \in 1..Get(scan).identityNum |-> Get(fs.obj[IdentityName(i - 1)])]
           /\ Get(scan).done =>
                 /\ Get(scan).identityNum = FirstMissing
                 /\ ReadIdentityMorphTargets(fs).names = Get(scan).id_names
                 /\ ReadIdentityMorphTargets(fs).meshes = Get(scan).id_meshes
                 /\ IoLoadModel(ModelPath, fs).ok =>
                       /\ Get(IoLoadModel(ModelPath, fs).val._identity_names)
                             = FirstIdentities(FirstMissing)
                       /\ Len(Get(IoLoadModel(ModelPath, fs).val._identity_shape_modes))
                             = FirstMissing)
    /\ <>(scan # None /\ Get(scan).done)

\* C16's case: the scan has ended on a directory with identity000 ..
\* identity002, no identity003 and an identity005, with three identities
C16_Witness ==
    /\ scan # None /\ Get(scan).done
    /\ \A n \in 0..2 : fs.obj[IdentityName(n)] # None
    /\ fs.obj["identity003"] = None /\ fs.obj["identity005"] # None
    /\ Get(scan).id_names = <<"identity000", "identity001", "identity002">>
    /\ IoLoadModel(ModelPath, fs).ok


\* the morph-target meshes load_face_model reads: the configured expressions
\* and the identities before the first gap
MorphTargets ==
    {fs.obj[Configured[j]] : j \in 1..Len(Configured)}
    \cup {fs.obj[IdentityName(n)] : n \in 0..(FirstMissing - 1)}

\* C17: when a morph-target mesh has a vertex count other than the neutral
\* mesh's N, load_face_model fails and returns no model; no loaded model
\* holds a shape mode without exactly N entries.
C17_TopologyMismatchAborts ==
    /\ (/\ last_call.op = "load_face_model"
        /\ ~FatalDirectory
        /\ \E t \in MorphTargets : Len(Get(t)) # Len(Get(fs.neutral)))
       => (last_call.err # "none" /\ face_model = None)
    /\ Returned("load_face_model") =>
          \A k \in 1..K_ex + K_id :
              Len((ExModes \o IdModes)[k]) = Len(Neutral)


\* C18: for morph-target meshes with N vertices each, the shape-mode
\* computation returns one mode of N vectors per mesh, in the order of the
\* meshes, with mode[k][i] = target_k.vertex[i] - neutral.vertex[i], and
\* leaves the neutral mesh as it was read.
C18_ShapeModesAreDifferences ==
    /\ fs.neutral # None =>
          \A a, b \in MeshesOf(Len(Get(fs.neutral))) :
              LET r == ComputeShapeModeDeltas(Get(fs.neutral), <<a, b>>)
              IN  /\ r.ok
                  /\ r.val = <<Delta(a, Get(fs.neutral)), Delta(b, Get(fs.neutral))>>
    /\ Returned("load_face_model") =>
          /\ Neutral = Get(fs.neutral)
          /\ \A n \in 0..(K_id - 1) :
                Len(Get(fs.obj[IdentityName(n)])) = Len(Neutral)
                => /\ IdModes[n + 1] = Delta(Get(fs.obj[IdentityName(n)]), Neutral)
                   /\ Len(IdModes[n + 1]) = Len(Neutral)
    /\ face_x_model # None =>
          LET fxm == Get(face_x_model)
          IN  /\ fxm.generic_neutral_mesh = Get(fs.neutral)
              /\ \A k \in 1..Len(fxm.identity_names) :
                    fxm.identity_shape_modes[k]
                        = Delta(Get(fs.obj[fxm.identity_names[k]]), Get(fs.neutral))
              /\ \A k \in 1..Len(fxm.expression_names) :
                    fxm.expression_shape_modes[k]
                        = Delta(Get(fs.obj[fxm.expression_names[k]]), Get(fs.neutral))

\* C18's case: load_face_model has returned a model over two vertices whose
\* first identity mode is the difference of identity000.obj and the neutral
C18_Witness ==
    /\ Returned("load_face_model") /\ face_model # None
    /\ Neutral = <<(<<1, 0, 0>>), (<<0, 0, 0>>)>>
    /\ K_id >= 1
    /\ fs.obj["identity000"] = Some(<<(<<0, 0, 0>>), (<<6, 1, 0>>)>>)
    /\ IdModes[1] = <<(<<-1, 0, 0>>), (<<6, 1, 0>>)>>


\* C19: in every state reached from a successful load_face_model by
\* set_identity, set_expression, randomize_identity, reset_mesh and
\* deform_mesh calls, the identity weight vector has length K_id and the
\* expression weight vector has length K_ex.
C19_WeightLengths ==
    (face_model # None /\ FM._model_initialized) =>
        /\ Len(IdWeights) = K_id
        /\ Len(ExWeights) = K_ex


\* the methods a client calls on a loaded model
ClientMethods ==
    {"set_identity", "set_expression", "randomize_identity",
     "reset_mesh", "deform_mesh", "get_deformed_mesh"}

LegacyMethods ==
    {"face_model.reset_mesh", "face_model.deform_mesh",
     "face_model.sample_random_identity"}

\* C20: once a model is loaded, set_identity, set_expression,
\* randomize_identity, reset_mesh, deform_mesh and get_deformed_mesh change
\* nothing but the weight vectors and the deformed buffer: the neutral
\* vertices, the shape modes and the names stay as loaded.
C20_AssetImmutable ==
    [][/\ (Loaded /\ last_call'.op \in ClientMethods) =>
            face_model' =
                Some([FM EXCEPT
                        !._identity_weights = Get(face_model')._identity_weights,
                        !._expression_weights = Get(face_model')._expression_weights,
                        !._deformed_vertices = Get(face_model')._deformed_vertices])
       /\ (my_face # None /\ last_call'.op \in LegacyMethods) =>
            /\ face_x_model' = face_x_model
            /\ my_face' =
                  Some([Get(my_face) EXCEPT
                          !.identity_weights = Get(my_face').identity_weights,
                          !.expression_weights = Get(my_face').expression_weights,
                          !.deformed_points = Get(my_face').deformed_points])
       /\ fs' = fs
      ]_vars

\* C20's case: deform_mesh has moved the buffer away from the neutral mesh,
\* which still holds the vertices of generic_neutral_mesh.obj
C20_Witness ==
    /\ Loaded /\ Returned("deform_mesh")
    /\ K_id = 1 /\ IdWeights = <<1>>
    /\ Buffer # Neutral
    /\ Neutral = Get(fs.neutral)
    /\ IdModes[1] = Delta(IdTarget(1), Neutral)


(* ---------------------------------------------------------------------- *)
\* the calls a client makes on one face_model.FaceModel instance
InstanceCalls ==
    {"face_model.weights", "face_model.sample_random_identity",
     "face_model.reset_mesh", "face_model.deform_mesh"}

\* what instance j owns: its two weight vectors and its buffer
Owned(h, instances, j) ==
    <<h[instances[j].identity_weights], h[instances[j].expression_weights],
      h[instances[j].deformed_points]>>

\* the model data instance j references: neutral points and shape modes
Shared(h, instances, j) ==
    <<h[instances[j].generic_neutral_points],
      h[instances[j].identity_shape_modes],
      h[instances[j].expression_shape_modes]>>

\* the model data the static variable holds
StaticData(h, static) ==
    IF static = None THEN <<>>
    ELSE <<h[Get(static).generic_neutral_mesh],
           h[Get(static).identity_shape_modes],
           h[Get(static).expression_shape_modes]>>

\* C21: a weight change, sample_random_identity, reset_mesh or deform_mesh
\* on one face_model.FaceModel instance leaves every other instance's
\* identity weights, expression weights and deformed buffer as they were,
\* and leaves the shared neutral mesh and shape modes as they were.
C21_InstanceIsolation ==
    [][ last_call'.op \in InstanceCalls =>
          /\ DOMAIN faces' = DOMAIN faces
          /\ \A j \in DOMAIN faces :
                /\ j # last_call'.arg[1] =>
                      Owned(heap', faces', j) = Owned(heap, faces, j)
                /\ Shared(heap', faces', j) = Shared(heap, faces, j)
          /\ StaticData(heap', face_x_model') = StaticData(heap, face_x_model)
      ]_vars

\* one instance was just deformed away from the neutral mesh while the
\* other holds its own nonzero weights and its own deformed buffer
C21_Witness ==
    /\ Len(faces) = 2
    /\ last_call.op = "face_model.deform_mesh"
    /\ last_call.arg = <<1>>
    /\ faces[1].generic_neutral_points = faces[2].generic_neutral_points
    /\ heap[faces[1].deformed_points] # heap[faces[1].generic_neutral_points]
    /\ heap[faces[2].deformed_points] # heap[faces[2].generic_neutral_points]
    /\ heap[faces[2].deformed_points] # heap[faces[1].deformed_points]
    /\ ~AllZero(heap[faces[2].expression_weights].data)


(* ---------------------------------------------------------------------- *)
\* instance j references the very arrays of the static FaceXModel
SharesStatic(static, instances, j) ==
    /\ static # None
    /\ instances[j].generic_neutral_points = Get(static).generic_neutral_mesh
    /\ instances[j].identity_shape_modes = Get(static).identity_shape_modes
    /\ instances[j].expression_shape_modes = Get(static).expression_shape_modes

\* no array of the static FaceXModel is referenced by instance j
Apart(static, instances, j) ==
    /\ instances[j].generic_neutral_points # Get(static).generic_neutral_mesh
    /\ instances[j].identity_shape_modes # Get(static).identity_shape_modes
    /\ instances[j].expression_shape_modes # Get(static).expression_shape_modes

AllShareStatic(static, instances) ==
    \A j \in DOMAIN instances : SharesStatic(static, instances, j)

\* C26: the constructor of face_model.FaceModel loads the FaceXModel into
\* the static variable only when that variable is None, and otherwise
\* leaves the static model in place, so that as long as load_face_x_model
\* is not called explicitly all instances reference the arrays of the one
\* model the first constructor loaded; an explicit load_face_x_model puts a
\* new model in the static variable and leaves the data the existing
\* instances reference as it was.
C26_LazySingleLoad ==
    [][ /\ (last_call'.op = "face_model.FaceModel" /\ last_call'.err = "none") =>
             /\ face_x_model' # None
             /\ Len(faces') = Len(faces) + 1
             /\ SharesStatic(face_x_model', faces', Len(faces'))
             /\ face_x_model # None =>
                   /\ StaticData(heap', face_x_model') = StaticData(heap, face_x_model)
                   /\ \A j \in DOMAIN faces :
                         SharesStatic(face_x_model, faces, j)
                            => SharesStatic(face_x_model', faces', j)
        /\ last_call'.op # "load_face_x_model" =>
             (AllShareStatic(face_x_model, faces)
                => AllShareStatic(face_x_model', faces'))
        /\ (last_call'.op = "load_face_x_model" /\ last_call'.err = "none") =>
             /\ face_x_model' # None
             /\ DOMAIN faces' = DOMAIN faces
             /\ \A j \in DOMAIN faces :
                   /\ Apart(face_x_model', faces', j)
                   /\ Shared(heap', faces', j) = Shared(heap, faces, j)
                   /\ Owned(heap', faces', j) = Owned(heap, faces, j)
      ]_vars

\* a second instance was constructed after an explicit load_face_x_model:
\* it shares the static model, the first instance still references the
\* model its own constructor loaded
C26_Witness ==
    /\ Len(faces) = 2
    /\ last_call.op = "face_model.FaceModel"
    /\ SharesStatic(face_x_model, faces, 2)
    /\ Apart(face_x_model, faces, 1)
    /\ faces[1].num_identities = 1


(* ---------------------------------------------------------------------- *)
\* the field is present and is a list of numbers
NumericArray(field) == field # None /\ Get(field).kind = "numbers"

\* C22: read_coefficients returns the pair (identity coefficients,
\* expression coefficients) of the document's two fields, in that order,
\* and fails, returning nothing, if either field is absent or is not a
\* numeric array.
C22_ReadCoefficients ==
    (last_call.op = "read_coefficients" /\ json_file # None) =>
        LET id == Get(json_file).identity_coefficients
            ex == Get(json_file).expression_coefficients
        IN  IF NumericArray(id) /\ NumericArray(ex)
            THEN /\ last_call.err = "none"
                 /\ returned = Some(<<Float64(Get(id).items),
                                      Float64(Get(ex).items)>>)
            ELSE /\ last_call.err # "none"
                 /\ returned = None

(* ---------------------------------------------------------------------- *)
Min(a, b) == IF a <= b THEN a ELSE b

\* one coordinate accumulated in float64: start at acc, add
\* weights[i] * modes[i][v][c] for i ascending up to n
RECURSIVE SumUpTo(_, _, _, _, _, _, _)
SumUpTo(acc, weights, modes, i, n, v, c) ==
    IF i > n THEN acc
    ELSE SumUpTo(Fl(acc + Fl(weights[i] * modes[i][v][c])),
                 weights, modes, i + 1, n, v, c)

\* C27: read_face_model on a file whose two fields are arrays of numbers
\* stores both arrays whole as the identity and expression weights and
\* returns without error, whatever their lengths; the buffer is then the
\* neutral mesh plus id[i] * idMode[i] for i < min(len(id), K_id) plus
\* ex[j] * exMode[j] for j < min(len(ex), K_ex), accumulated in that order.
C27_ReadFaceModel ==
    (/\ last_call.op = "face_model.read_face_model"
     /\ json_file # None
     /\ NumericArray(Get(json_file).identity_coefficients)
     /\ NumericArray(Get(json_file).expression_coefficients)) =>
        LET self == faces[last_call.arg[1]]
            id == Get(Get(json_file).identity_coefficients).items
            ex == Get(Get(json_file).expression_coefficients).items
            neutral == heap[self.generic_neutral_points].data
            id_modes == heap[self.identity_shape_modes].data
            ex_modes == heap[self.expression_shape_modes].data
        IN  /\ last_call.err = "none"
            /\ heap[self.identity_weights] = Float64(id)
            /\ heap[self.expression_weights] = Float64(ex)
            /\ \A v \in 1..Len(neutral), c \in 1..Dim :
                  heap[self.deformed_points].data[v][c] =
                     SumUpTo(SumUpTo(neutral[v][c], id, id_modes, 1,
                                     Min(Len(id), Len(id_modes)), v, c),
                             ex, ex_modes, 1,
                             Min(Len(ex), Len(ex_modes)), v, c)

\* the file held more identity coefficients than the model has identity
\* modes and no expression coefficient, and the first identity drove the
\* buffer away from the neutral mesh
C27_Witness ==
    /\ last_call.op = "face_model.read_face_model"
    /\ last_call.err = "none"
    /\ json_file # None
    /\ NumericArray(Get(json_file).identity_coefficients)
    /\ Get(Get(json_file).identity_coefficients).items = <<1, 1>>
    /\ NumericArray(Get(json_file).expression_coefficients)
    /\ Get(Get(json_file).expression_coefficients).items = <<>>
    /\ faces[1].num_identities = 1
    /\ faces[1].num_expressions = 1
    /\ heap[faces[1].deformed_points] # heap[faces[1].generic_neutral_points]


(* ---------------------------------------------------------------------- *)
\* the neutral vertices plus the first p identity and the first q
\* expression contributions, accumulated in that order
Partial(p, q) ==
    [v \in 1..Len(Neutral) |->
       [c \in 1..Dim |->
          SumUpTo(SumUpTo(Neutral[v][c], IdWeights, IdModes, 1, p, v, c),
                  ExWeights, ExModes, 1, q, v, c)]]

\* the pairs each helper of deform_mesh processes
IdPairs == Min(Len(IdWeights), K_id)

ExPairs == Min(Len(ExWeights), K_ex)

Consistent(self) ==
    LET N == Len(Get(self._generic_neutral_mesh))
        k_id == Get(self._num_identities)
        k_ex == Get(self._num_expressions)
    IN  /\ Len(Get(self._deformed_vertices)) = N
        /\ Len(Get(self._identity_names)) = k_id
        /\ Len(Get(self._identity_weights)) = k_id
        /\ Len(Get(self._identity_shape_modes)) = k_id
        /\ Len(Get(self._expression_names)) = k_ex
        /\ Len(Get(self._expression_weights)) = k_ex
        /\ Len(Get(self._expression_shape_modes)) = k_ex
        /\ \A i \in 1..k_id : Len(Get(self._identity_shape_modes)[i]) = N
        /\ \A i \in 1..k_ex : Len(Get(self._expression_shape_modes)[i]) = N

\* C24: whenever _model_loaded is True, also after a load_model call on a
\* loaded instance that failed part-way, the neutral mesh, the buffer, the
\* shape modes, the names, the counts and the weights agree on N, K_id and
\* K_ex.
C24_LoadedIsConsistent ==
    Loaded => Consistent(FM)


(* ---------------------------------------------------------------------- *)
\* the vector of dimension k the claim expects from a pre-set vector: its
\* first k entries, zeros where it has none
FirstK(preset, k) ==
    [i \in 1..k |-> IF i <= Len(preset) THEN preset[i] ELSE 0]

\* C25: load_model on an instance that is not loaded yet succeeds on a
\* complete directory whatever the length of the vectors set before, and
\* stores for each kind a vector of dimension K: the first K entries of the
\* pre-set vector, or all zeros when the kind was never set.
C25_PresetWeightsAtLoad ==
    [][ (last_call'.op = "load_model" /\ ~FM._model_loaded) =>
          LET after == Get(face_model')
          IN  /\ last_call'.err = "none"
              /\ after._identity_weights =
                   Some(IF FM._identity_weights = None
                        THEN Zeros(Get(after._num_identities))
                        ELSE FirstK(Get(FM._identity_weights),
                                    Get(after._num_identities)))
              /\ after._expression_weights =
                   Some(IF FM._expression_weights = None
                        THEN Zeros(Get(after._num_expressions))
                        ELSE FirstK(Get(FM._expression_weights),
                                    Get(after._num_expressions)))
      ]_vars


(* ---------------------------------------------------------------------- *)
\* the buffer of the client's face_model.FaceModel as a function of its
\* weights, its neutral points and its shape modes
LegacyDeformed(self) ==
    [v \in 1..Len(self.generic_neutral_points) |->
       [c \in 1..Dim |->
          SumUpTo(SumUpTo(self.generic_neutral_points[v][c],
                          self.identity_weights, self.identity_shape_modes, 1,
                          Min(Len(self.identity_weights), self.num_identities),
                          v, c),
                  self.expression_weights, self.expression_shape_modes, 1,
                  Min(Len(self.expression_weights), self.num_expressions),
                  v, c)]]

\* C28: the buffer deform_mesh leaves is a function of the current weights,
\* the neutral mesh and the shape modes only, whatever the buffer held
\* before and whatever calls came earlier, and a second deform_mesh in a
\* row leaves the buffer as the first left it; for both classes.
C28_DeformIsIdempotent ==
    [][ /\ (Loaded /\ last_call'.op = "deform_mesh") =>
             /\ Get(face_model')._deformed_vertices =
                   Some(Partial(IdPairs, ExPairs))
             /\ DeformMesh(Get(face_model')).self = Get(face_model')
             /\ last_call.op = "deform_mesh" =>
                   Get(face_model')._deformed_vertices = FM._deformed_vertices
        /\ (my_face # None /\ last_call'.op = "face_model.deform_mesh") =>
             /\ Get(my_face').deformed_points = LegacyDeformed(Get(my_face))
             /\ LegacyDeformMesh(Get(my_face')) = Get(my_face')
             /\ last_call.op = "face_model.deform_mesh" =>
                   Get(my_face').deformed_points = Get(my_face).deformed_points
      ]_vars

\* deform_mesh returned on a model with an identity mode whose only nonzero
\* weight is an expression weight: the buffer is the neutral mesh plus that
\* expression, with nothing left of an earlier deformation
C28_Witness ==
    /\ Loaded
    /\ Returned("deform_mesh")
    /\ K_id = 1
    /\ AllZero(IdWeights)
    /\ ~AllZero(ExWeights)
    /\ Buffer = Partial(0, 1)
    /\ Buffer # Neutral
    /\ IdModes[1] # ExModes[1]


(* ---------------------------------------------------------------------- *)
\* the first index k whose identity{k}.obj is missing or cannot be read
FirstFailure ==
    CHOOSE k \in 0..Len(IdentityNames) :
        /\ \A n \in 0..(k - 1) :
              /\ fs.obj[IdentityName(n)] # None
              /\ IdentityName(n) \notin fs.unreadable
        /\ k < Len(IdentityNames) =>
              \/ fs.obj[IdentityName(k)] = None
              \/ IdentityName(k) \in fs.unreadable

\* C29: a read failure of any kind at index k, a missing file or a file
\* that exists and cannot be read, ends the identity scan: the scan never
\* reads a file with a larger index, and load_face_model succeeds, without
\* reporting the failure, with exactly the k identities read before it.
C29_AnyReadFailureEndsScan ==
    /\ scan # None =>
          /\ Get(scan).identityNum <= FirstFailure
          /\ Get(scan).id_names = FirstIdentities(Get(scan).identityNum)
          /\ Get(scan).done => Get(scan).identityNum = FirstFailure
    /\ last_call.op = "load_face_model" =>
          /\ last_call.err = "none"
          /\ face_model # None
          /\ FM._identity_names = Some(FirstIdentities(FirstFailure))
          /\ Len(Get(FM._identity_shape_modes)) = FirstFailure

\* load_face_model returned on a directory whose identity001.obj exists and
\* cannot be read and whose identity002.obj is readable: one identity
C29_Witness ==
    /\ last_call.op = "load_face_model"
    /\ last_call.err = "none"
    /\ fs.unreadable = {"identity001"}
    /\ fs.obj["identity002"] # None
    /\ FM._identity_names = Some(<<"identity000">>)
    /\ scan # None /\ Get(scan).done


(* ---------------------------------------------------------------------- *)
\* the identity files of the directory are exactly identity000 ..
\* identity{k-1} for some k, all readable
WellFormedIdentities ==
    /\ fs.unreadable = {}
    /\ IdentityFiles(fs) = {IdentityName(n) : n \in 0..(FirstMissing - 1)}

\* C30: on a directory whose identity files are exactly identity000 ..
\* identity{k-1}, the directory-listing loader (FaceModel.load_model) yields
\* the identity names the sequential-scan loader yields, in the same
\* ascending order.
C30_LoadersAgree ==
    (Loaded /\ Returned("load_model") /\ WellFormedIdentities) =>
        /\ FM._identity_names = Some(ReadIdentityMorphTargets(fs).names)
        /\ FM._identity_names = Some(FirstIdentities(FirstMissing))

====
